---- MODULE Spec2Model ----
(***************************************************************************)
(* Transcription job orchestrator of TextifyVoice (src/main.py).           *)
(*                                                                         *)
(* Three parties run concurrently:                                         *)
(*   - the GUI thread: TranscriptionWindow.start_transcription and         *)
(*     TranscriptionWindow.on_closing (the cancel handler);                *)
(*   - the batch thread: TranscriptionWindow.process_files, which calls    *)
(*     TranscriptionManager.transcribe_file for each listed file;          *)
(*   - one worker process per job: transcribe_file_process.                *)
(* Every statement that reads or writes state shared between the threads   *)
(* is a step of its own, so every interleaving Python allows is a          *)
(* behaviour of the model.                                                 *)
(***************************************************************************)
EXTENDS Integers, Sequences, FiniteSets, TLC

\* number of files in the list of the transcription window
NFiles == 2

Files == 1..NFiles

\* Python's None, for transcription_process and current_item
None == 0

\* values of the 'Status' column of the file list
StPreparado == "Preparado"
StProgresso == "Transcricao em progresso..."
StFinalizado == "Finalizado"
StCancelado == "Cancelado"
StErro == "Erro"

\* the positions of a worker process in which Process.is_alive() is True
\* ("w_detached": alive, its job over, its queues out of the controller's reach)
WorkerAlivePcs ==
    {"w_load", "w_extract", "w_transcribe", "w_save", "w_put", "w_failed", "w_detached"}

\* the values of config['model_path'] a job can meet: not configured,
\* configured but no such file, configured and loadable
ModelPaths == {"empty", "missing", "ok"}

\* the failures the steps of the worker can raise; extract_audio's other
\* handlers (permission, timeout, generic) behave as the subprocess one
LoadErrors == {"model_load"}
ExtractErrors == {"ffmpeg_missing", "subprocess"}
InferenceErrors == {"inference"}
FormatErrors == {"format"}

VARIABLES
    \* ---- TranscriptionManager ----
    is_transcribing,        \* TranscriptionManager.is_transcribing
    cancel_transcription,   \* TranscriptionManager.cancel_transcription
    transcription_process,  \* TranscriptionManager.transcription_process (None or a job's Process)
    \* ---- TranscriptionWindow ----
    status,                 \* file_list 'Status' column, per file
    current_item,           \* TranscriptionWindow.current_item
    \* ---- GUI thread (on_closing) ----
    gpc,                    \* position of the GUI thread
    oc_proc,                \* on_closing's local transcription_process
    \* ---- batch thread (process_files / transcribe_file) ----
    bpc,                    \* position of the batch thread
    idx,                    \* process_files: the item of the for loop
    pending,                \* the return value or exception transcribe_file is about to end with
    result_queue,           \* transcribe_file's local result_queue
    \* ---- worker processes, per file ----
    worker,                 \* position of transcribe_file_process and the failure it caught
    \* ---- observation ----
    submitted,              \* times a worker process was started, per file
    job,                    \* what happened in the current call of transcribe_file
    run,                    \* what happened in the current run of process_files
    \* ---- progress reporting of one job ----
    progress_queue,         \* transcribe_file's local progress_queue
    sent,                   \* the progress events the worker has put, in order
    forwarded,              \* the progress events handed to progress_callback, in order
    \* ---- output formatting ----
    call,                   \* the formatting routine that is applied
    segments,               \* result["segments"], the segment list it is given
    settings,               \* the TranscriptionSettings it is given
    seconds,                \* _format_timestamp_value: its argument 'seconds'
    target,                 \* _format_timestamp_value: its argument 'target'
    fpc,                    \* "call" before the routine ran, "return" after
    groups,                 \* _build_paragraphs: its local 'groups'
    pause_threshold,        \* _build_paragraphs: its local 'pause_threshold'
    paragraphs,             \* _build_paragraphs: the list it returns
    fp,                     \* the lines written to the output file
    stamp,                  \* _format_timestamp_value: the string it returns
    input_text,             \* _clean_text: its argument 'text'
    cleaned,                \* _clean_text: the string it returns
    payload,                \* _save_json: payload["segments"], the records it dumps
    \* ---- model download ----
    cancel_download,        \* QualitySelectionWindow.cancel_download, the Event
    btn_download,           \* state of QualitySelectionWindow.btn_download
    progress_window,        \* the download whose progress window is up, or None
    model_file,             \* the file at caminho_modelo
    dl,                     \* the download threads, per download started
    \* ---- advanced settings window ----
    settings_window,        \* TextifyVoiceModernGUI.settings_window: "none" or "open"
    settings_changed,       \* AdvancedSettingsWindow.settings_changed
    tkvars,                 \* the tk variables of the window's widgets
    gui_settings,           \* TextifyVoiceModernGUI.settings, the applied settings
    touched,                \* the user changed a widget since the window was built
    asked                   \* whether the last close() asked the user, and of which window

\* the variables of the job orchestrator
ovars == <<is_transcribing, cancel_transcription, transcription_process, status,
           current_item, gpc, oc_proc, bpc, idx, pending, result_queue, worker,
           submitted, job, run>>

\* the variables of progress reporting
qvars == <<progress_queue, sent, forwarded>>

\* the variables of output formatting
fvars == <<call, segments, settings, seconds, target, fpc, groups, pause_threshold,
           paragraphs, fp, stamp, input_text, cleaned, payload>>

\* the variables of the model download
dvars == <<cancel_download, btn_download, progress_window, model_file, dl>>

\* what the orchestrator, progress reporting and formatting leave alone
svars == <<settings_window, settings_changed, tkvars, gui_settings, touched, asked>>

others == <<dvars, svars>>

vars == <<ovars, qvars, fvars, others>>

mvars == <<is_transcribing, cancel_transcription, transcription_process>>
gvars == <<gpc, oc_proc>>
bvars == <<bpc, idx, pending>>

\* no message taken off the result queue
NoMessage == [type |-> "none", msg |-> ""]

\* no call of transcribe_file is being observed
NoJob ==
    [model |-> "ok",           \* config['model_path'] the job met
     file_exists |-> TRUE,     \* os.path.exists(filepath) the job met
     started |-> FALSE,        \* Process.start() was called
     outcome |-> "none",       \* Completed, Cancelled or Failed once transcribe_file ended
     ends |-> 0,               \* times the call ended
     message |-> "",           \* the message of the exception of a Failed outcome
     callbacks |-> 0,          \* times output_callback was invoked
     error_dialogs |-> 0,      \* messagebox.showerror calls made for the job
     cancel_seen |-> FALSE,    \* a cancel handler was active at some moment of the job
     cancel_alive |-> FALSE,   \* a cancel was requested while the worker was alive
     alive_at_end |-> FALSE,   \* the worker was alive when transcribe_file ended
     process_at_end |-> None,  \* transcription_process when transcribe_file ended
     cancel_at_end |-> FALSE,  \* cancel_transcription when transcribe_file ended
     puts |-> 0,               \* result_queue.put calls of the job's worker
     read |-> NoMessage]       \* what transcribe_file took off the result queue

\* the closing messages of process_files
MsgConcluido == "Concluido"
MsgCancelado == "Cancelado"

\* no run of process_files is being observed
NoRun ==
    [confirmed |-> FALSE,      \* the user confirmed a cancel during the run
     cancelled_job |-> FALSE,  \* a cancel was confirmed while the worker of a call of
                               \* transcribe_file that is over by now was alive
     message |-> ""]           \* the closing message shown

\* a worker process: its position, the failure it caught, and whether the
\* model file it was given can be loaded at all
NoWorker == [pc |-> "unstarted", err |-> "", loadable |-> TRUE]

\* TranscriptionSettings(): the defaults of the dataclass
DefaultSettings ==
    [output_format |-> "docx",
     include_timestamps |-> FALSE,
     timestamp_mode |-> "segment",
     timestamp_format |-> "minutes",
     auto_paragraphs |-> TRUE,
     punctuation |-> TRUE,
     capitalization |-> TRUE,
     paragraph_sensitivity |-> 50]

\* the orchestrator after construction: no batch started, no job, no worker
OrchestratorIdle ==
    /\ is_transcribing = FALSE
    /\ cancel_transcription = FALSE
    /\ transcription_process = None
    /\ status = [i \in Files |-> StPreparado]
    /\ current_item = None
    /\ gpc = "idle"
    /\ oc_proc = None
    /\ bpc = "stopped"
    /\ idx = 1
    /\ pending = [kind |-> "none", msg |-> ""]
    /\ result_queue = <<>>
    /\ worker = [i \in Files |-> NoWorker]
    /\ submitted = [i \in Files |-> 0]
    /\ job = NoJob
    /\ run = NoRun

\* no progress queue exists and no event was sent
ProgressIdle ==
    /\ progress_queue = <<>>
    /\ sent = <<>>
    /\ forwarded = <<>>

\* no formatting routine is applied
FormatIdle ==
    /\ call = "none"
    /\ segments = <<>>
    /\ settings = DefaultSettings
    /\ seconds = 0
    /\ target = "none"
    /\ fpc = "call"
    /\ groups = <<>>
    /\ pause_threshold = None
    /\ paragraphs = <<>>
    /\ fp = <<>>
    /\ stamp = <<>>
    /\ input_text = <<>>
    /\ cleaned = <<>>
    /\ payload = <<>>

\* the downloads the user starts from one quality window
MaxDownloads == 2

Downloads == 1..MaxDownloads

\* max_tentativas of download_model
MaxTentativas == 3

\* the settings the advanced settings window is opened with first: the
\* defaults of TranscriptionSettings
WidgetDefaults ==
    [output_format |-> "docx",
     paragraph_sensitivity |-> 50,
     language_strategy |-> "auto",
     remove_noise |-> FALSE,
     normalize_audio |-> FALSE,
     quality_preset |-> "balanced"]

\* a download that was not started
NoDownload ==
    [pc |-> "unstarted",          \* position of download_thread
     tentativa |-> 0,             \* download_model: the loop variable
     exc |-> "",                  \* what the except clause caught: the cancel or a failure
     handle |-> "closed",         \* f of 'with open(caminho_modelo, 'wb') as f'
     attempts |-> 0,              \* requests.get calls made
     error_dialogs |-> 0,         \* ErrorHandlers.handle_download_error calls
     cancel_seen |-> FALSE,       \* cancel_event.is_set() answered True
     outcome |-> "none",          \* how download_model ended
     error |-> "",                \* the exception it raised
     report |-> ""]               \* the message box download_thread showed

\* no file at caminho_modelo
NoFile == [exists |-> FALSE, content |-> "none"]

\* the files that can be at caminho_modelo when the window opens
ExistingFiles ==
    {NoFile, [exists |-> TRUE, content |-> "complete"],
     [exists |-> TRUE, content |-> "corrupt"]}

\* a quality window was opened and no download started
DownloadIdle ==
    /\ cancel_download = FALSE
    /\ btn_download = "normal"
    /\ progress_window = None
    /\ model_file = NoFile
    /\ dl = [t \in Downloads |-> NoDownload]

\* no advanced settings window is open
SettingsIdle ==
    /\ settings_window = "none"
    /\ settings_changed = FALSE
    /\ tkvars = WidgetDefaults
    /\ gui_settings = WidgetDefaults
    /\ touched = FALSE
    /\ asked = "nothing"

OthersIdle == DownloadIdle /\ SettingsIdle

Init == OrchestratorIdle /\ ProgressIdle /\ FormatIdle /\ OthersIdle

\* Process.is_alive() of the worker of job p
IsAlive(p) == worker[p].pc \in WorkerAlivePcs

\* the positions of the batch thread inside transcribe_file, after Process.start()
TfPcs ==
    {"tf_cond1", "tf_cond2", "tf_cancel", "tf_c1", "tf_c2", "tf_c3",
     "tf_c4", "tf_c5", "tf_c_reset", "tf_result", "tf_fin1", "tf_fin2",
     "tf_fin_none", "tf_fin3"}

\* the batch thread is in a call of transcribe_file
InTranscribeFile == bpc \in TfPcs \cup {"tf_begin"}

(***************************************************************************)
(* The worker: TranscriptionManager.transcribe_file_process                *)
(***************************************************************************)

\* the queues of a job are locals of its call of transcribe_file: the
\* controller can see what worker i puts only during that call
Attached(i) == idx = i /\ bpc \in TfPcs \cup {"pf_after", "pf_finally"}

\* number of error dialogs extract_audio raises for a failure, before re-raising
ExtractDialogs(e) ==
    IF e = "ffmpeg_missing" THEN 2 ELSE 1

\* a step of the worker that succeeded
WorkerAdvance(i, next) ==
    /\ worker' = [worker EXCEPT ![i].pc = next]
    /\ UNCHANGED <<result_queue, job>>

\* a step of the worker that raised e after showing its error dialogs: the
\* except clause of the routine is next
WorkerRaise(i, e, dialogs) ==
    /\ worker' = [worker EXCEPT ![i] = [pc |-> "w_failed", err |-> e, loadable |-> TRUE]]
    /\ job' = IF Attached(i) THEN [job EXCEPT !.error_dialogs = @ + dialogs] ELSE job
    /\ UNCHANGED result_queue

\* whisper.load_model: a model path without a file can only raise
WorkerLoadModel(i) ==
    /\ worker[i].pc = "w_load"
    /\ \/ /\ worker[i].loadable
          /\ WorkerAdvance(i, "w_extract")
       \/ \E e \in LoadErrors : WorkerRaise(i, e, 0)
    /\ UNCHANGED <<mvars, status, current_item, gvars, bvars, submitted>>
    /\ UNCHANGED <<qvars, fvars, run, others>>

WorkerExtractAudio(i) ==
    /\ worker[i].pc = "w_extract"
    /\ \/ WorkerAdvance(i, "w_transcribe")
       \/ \E e \in ExtractErrors : WorkerRaise(i, e, ExtractDialogs(e))
    /\ UNCHANGED <<mvars, status, current_item, gvars, bvars, submitted>>
    /\ UNCHANGED <<qvars, fvars, run, others>>

WorkerTranscribe(i) ==
    /\ worker[i].pc = "w_transcribe"
    /\ \/ WorkerAdvance(i, "w_save")
       \/ \E e \in InferenceErrors : WorkerRaise(i, e, 0)
    /\ UNCHANGED <<mvars, status, current_item, gvars, bvars, submitted>>
    /\ UNCHANGED <<qvars, fvars, run, others>>

WorkerFormatOutput(i) ==
    /\ worker[i].pc = "w_save"
    /\ \/ WorkerAdvance(i, "w_put")
       \/ \E e \in FormatErrors : WorkerRaise(i, e, 0)
    /\ UNCHANGED <<mvars, status, current_item, gvars, bvars, submitted>>
    /\ UNCHANGED <<qvars, fvars, run, others>>

\* the message the worker puts when every step succeeded
OutputMessage == [type |-> "output_path", msg |-> ""]

\* the message the except clause of the worker puts
ErrorMessage(e) == [type |-> "error", msg |-> e]

\* worker i puts m on its result queue and exits
WorkerPut(i, m) ==
    /\ worker' = [worker EXCEPT ![i].pc = "exited"]
    /\ IF Attached(i)
       THEN /\ result_queue' = Append(result_queue, m)
            /\ job' = [job EXCEPT !.puts = @ + 1]
       ELSE UNCHANGED <<result_queue, job>>

\* 'result_queue.put({'output_path': ...})' at the end of the try block
WorkerPutResult(i) ==
    /\ worker[i].pc = "w_put"
    /\ WorkerPut(i, OutputMessage)
    /\ UNCHANGED <<mvars, status, current_item, gvars, bvars, submitted>>
    /\ UNCHANGED <<qvars, fvars, run, others>>

\* 'result_queue.put({'error': str(e)})' in the except clause
WorkerPutError(i) ==
    /\ worker[i].pc = "w_failed"
    /\ WorkerPut(i, ErrorMessage(worker[i].err))
    /\ UNCHANGED <<mvars, status, current_item, gvars, bvars, submitted>>
    /\ UNCHANGED <<qvars, fvars, run, others>>

\* the worker dies by a crash, the OOM killer or a kill from outside the program
WorkerCrash(i) ==
    /\ IsAlive(i)
    /\ worker[i].pc # "w_detached"
    /\ worker' = [worker EXCEPT ![i].pc = "crashed"]
    /\ UNCHANGED <<mvars, status, current_item, gvars, bvars, result_queue, submitted,
                   job>>
    /\ UNCHANGED <<qvars, fvars, run, others>>

\* a worker whose job is over runs to its end and exits, or dies
WorkerDetachedExit(i) ==
    /\ worker[i].pc = "w_detached"
    /\ worker' = [worker EXCEPT ![i].pc = "gone"]
    /\ UNCHANGED <<mvars, status, current_item, gvars, bvars, result_queue, submitted,
                   job>>
    /\ UNCHANGED <<qvars, fvars, run, others>>

\* Process.terminate() on process p, and the death of the process
Terminated(p) ==
    IF IsAlive(p) THEN [worker EXCEPT ![p].pc = "terminated"] ELSE worker

WorkerNext ==
    \E i \in Files :
        \/ WorkerLoadModel(i)
        \/ WorkerExtractAudio(i)
        \/ WorkerTranscribe(i)
        \/ WorkerFormatOutput(i)
        \/ WorkerPutResult(i)
        \/ WorkerPutError(i)
        \/ WorkerCrash(i)
        \/ WorkerDetachedExit(i)

(***************************************************************************)
(* The batch thread: TranscriptionWindow.process_files calling             *)
(* TranscriptionManager.transcribe_file                                    *)
(***************************************************************************)

\* the terminal statuses as a loop that forgot failed files would test them
IsTerminalWithoutErro(s) == s \in {StFinalizado, StCancelado}

\* the statuses process_files skips
IsTerminal(s) == s \in {StFinalizado, StCancelado, StErro}

\* process_files: the number of files still to process
TotalItems == Cardinality({i \in Files : ~IsTerminal(status[i])})

\* process_files, up to the for loop
PfBegin ==
    /\ bpc = "pf_begin"
    /\ IF TotalItems = 0
       THEN /\ is_transcribing' = FALSE
            /\ bpc' = "stopped"
       ELSE /\ bpc' = "pf_loop"
            /\ UNCHANGED is_transcribing
    /\ idx' = 1
    /\ UNCHANGED <<cancel_transcription, transcription_process, status, current_item,
                   gvars, pending, result_queue, worker, submitted, job>>
    /\ UNCHANGED <<qvars, fvars, run, others>>

\* the for loop takes the next item and tests the cancel flag
PfLoop ==
    /\ bpc = "pf_loop"
    /\ bpc' = IF idx > NFiles \/ cancel_transcription THEN "pf_end" ELSE "pf_status"
    /\ UNCHANGED <<mvars, status, current_item, gvars, idx, pending, result_queue,
                   worker, submitted, job>>
    /\ UNCHANGED <<qvars, fvars, run, others>>

\* the item's status is read; an item that is not terminal becomes current_item
PfStatus ==
    /\ bpc = "pf_status"
    /\ IF IsTerminal(status[idx])
       THEN /\ idx' = idx + 1
            /\ bpc' = "pf_loop"
            /\ UNCHANGED current_item
       ELSE /\ current_item' = idx
            /\ bpc' = "pf_mark"
            /\ UNCHANGED idx
    /\ UNCHANGED <<mvars, status, gvars, pending, result_queue, worker, submitted, job>>
    /\ UNCHANGED <<qvars, fvars, run, others>>

\* 'self.file_list.set(item, 'Status', 'Transcricao em progresso...')'
PfMark ==
    /\ bpc = "pf_mark"
    /\ status' = [status EXCEPT ![idx] = StProgresso]
    /\ bpc' = "tf_begin"
    /\ UNCHANGED <<mvars, current_item, gvars, idx, pending, result_queue, worker,
                   submitted, job>>
    /\ UNCHANGED <<qvars, fvars, run, others>>

\* an exception the handlers of transcribe_file catch; the finally block is next
Raise(m) ==
    /\ pending' = [kind |-> "failed", msg |-> m]
    /\ bpc' = "tf_fin1"

\* transcribe_file's checks of its inputs: the model path mp, and whether
\* the source file exists
InputError(mp, fe) ==
    IF mp = "empty" THEN "no_model_path"
    ELSE IF ~fe THEN "file_not_found"
    ELSE ""

\* transcribe_file from its entry to Process.start(); a rejected input
\* shows one error dialog (handle_generic_error or handle_file_not_found)
TfBegin ==
    /\ bpc = "tf_begin"
    /\ \E mp \in ModelPaths, fe \in BOOLEAN :
         LET fresh == [NoJob EXCEPT !.model = mp,
                                    !.file_exists = fe,
                                    !.cancel_seen = (gpc # "idle" \/ cancel_transcription)]
         IN IF InputError(mp, fe) # ""
            THEN /\ Raise(InputError(mp, fe))
                 /\ job' = [fresh EXCEPT !.error_dialogs = 1]
                 /\ UNCHANGED <<transcription_process, worker, submitted>>
            ELSE /\ transcription_process' = idx
                 /\ worker' = [worker EXCEPT ![idx] =
                                  [pc |-> "w_load", err |-> "", loadable |-> (mp = "ok")]]
                 /\ submitted' = [submitted EXCEPT ![idx] = @ + 1]
                 /\ job' = [fresh EXCEPT !.started = TRUE]
                 /\ bpc' = "tf_cond1"
                 /\ UNCHANGED pending
    /\ result_queue' = <<>>
    /\ UNCHANGED <<is_transcribing, cancel_transcription, status, current_item,
                   gvars, idx>>
    /\ UNCHANGED <<qvars, fvars, run, others>>

\* an exception raised inside the try block of transcribe_file by the code
\* itself: handle_generic_error shows one dialog
RaiseGeneric(m) ==
    /\ Raise(m)
    /\ job' = [job EXCEPT !.error_dialogs = @ + 1]

\* while ...: first operand, 'self.transcription_process is not None'
TfCond1 ==
    /\ bpc = "tf_cond1"
    /\ bpc' = IF transcription_process = None THEN "tf_result" ELSE "tf_cond2"
    /\ UNCHANGED <<mvars, status, current_item, gvars, idx, pending, result_queue,
                   worker, submitted, job>>
    /\ UNCHANGED <<qvars, fvars, run, others>>

\* while ...: second operand, 'self.transcription_process.is_alive()'; the
\* loop body (progress, sleep) follows when it is alive
TfCond2 ==
    /\ bpc = "tf_cond2"
    /\ IF transcription_process = None
       THEN RaiseGeneric("attribute_error")
       ELSE /\ bpc' = IF IsAlive(transcription_process) THEN "tf_cancel" ELSE "tf_result"
            /\ UNCHANGED <<pending, job>>
    /\ UNCHANGED <<mvars, status, current_item, gvars, idx, result_queue, worker,
                   submitted>>
    /\ UNCHANGED <<qvars, fvars, run, others>>

\* a polling loop that never looks at the cancel flag
CancelNeverObserved == FALSE

\* 'if self.cancel_transcription' after the sleep
CancelObserved == cancel_transcription

TfCancel ==
    /\ bpc = "tf_cancel"
    /\ bpc' = IF CancelObserved THEN "tf_c1" ELSE "tf_cond1"
    /\ UNCHANGED <<mvars, status, current_item, gvars, idx, pending, result_queue,
                   worker, submitted, job>>
    /\ UNCHANGED <<qvars, fvars, run, others>>

\* cancel branch: 'self.transcription_process is not None'
TfC1 ==
    /\ bpc = "tf_c1"
    /\ bpc' = IF transcription_process = None THEN "tf_c_reset" ELSE "tf_c2"
    /\ UNCHANGED <<mvars, status, current_item, gvars, idx, pending, result_queue,
                   worker, submitted, job>>
    /\ UNCHANGED <<qvars, fvars, run, others>>

\* cancel branch: 'self.transcription_process.is_alive()'
TfC2 ==
    /\ bpc = "tf_c2"
    /\ IF transcription_process = None
       THEN RaiseGeneric("attribute_error")
       ELSE /\ bpc' = IF IsAlive(transcription_process) THEN "tf_c3" ELSE "tf_c_reset"
            /\ UNCHANGED <<pending, job>>
    /\ UNCHANGED <<mvars, status, current_item, gvars, idx, result_queue, worker,
                   submitted>>
    /\ UNCHANGED <<qvars, fvars, run, others>>

\* cancel branch: 'self.transcription_process.terminate()'
TfC3 ==
    /\ bpc = "tf_c3"
    /\ IF transcription_process = None
       THEN /\ RaiseGeneric("attribute_error")
            /\ UNCHANGED worker
       ELSE /\ worker' = Terminated(transcription_process)
            /\ bpc' = "tf_c4"
            /\ UNCHANGED <<pending, job>>
    /\ UNCHANGED <<mvars, status, current_item, gvars, idx, result_queue, submitted>>
    /\ UNCHANGED <<qvars, fvars, run, others>>

\* cancel branch: 'self.transcription_process.join()', which waits for the process
TfC4 ==
    /\ bpc = "tf_c4"
    /\ IF transcription_process = None
       THEN RaiseGeneric("attribute_error")
       ELSE /\ ~IsAlive(transcription_process)
            /\ bpc' = "tf_c5"
            /\ UNCHANGED <<pending, job>>
    /\ UNCHANGED <<mvars, status, current_item, gvars, idx, result_queue, worker,
                   submitted>>
    /\ UNCHANGED <<qvars, fvars, run, others>>

\* cancel branch: 'self.transcription_process = None'
TfC5 ==
    /\ bpc = "tf_c5"
    /\ transcription_process' = None
    /\ bpc' = "tf_c_reset"
    /\ UNCHANGED <<is_transcribing, cancel_transcription, status, current_item, gvars,
                   idx, pending, result_queue, worker, submitted, job>>
    /\ UNCHANGED <<qvars, fvars, run, others>>

\* a cancel branch that first delivers a result the worker has already queued
TfCancelRaiseAfterDelivery ==
    /\ bpc = "tf_c_reset"
    /\ cancel_transcription' = FALSE
    /\ pending' = [kind |-> "cancelled", msg |-> ""]
    /\ bpc' = "tf_fin1"
    /\ IF result_queue # <<>>
       THEN /\ result_queue' = Tail(result_queue)
            /\ job' = [job EXCEPT !.read = Head(result_queue),
                                  !.callbacks = IF Head(result_queue).type = "output_path"
                                                THEN @ + 1 ELSE @]
       ELSE UNCHANGED <<result_queue, job>>
    /\ UNCHANGED <<is_transcribing, transcription_process, status, current_item, gvars,
                   idx, worker, submitted>>
    /\ UNCHANGED <<qvars, fvars, run, others>>

\* cancel branch: the flag is reset and TranscriptionCancelledException raised
TfCancelRaise ==
    /\ bpc = "tf_c_reset"
    /\ cancel_transcription' = FALSE
    /\ pending' = [kind |-> "cancelled", msg |-> ""]
    /\ bpc' = "tf_fin1"
    /\ UNCHANGED <<is_transcribing, transcription_process, status, current_item, gvars,
                   idx, result_queue, worker, submitted, job>>
    /\ UNCHANGED <<qvars, fvars, run, others>>

\* result processing that returns (None) when the queue is empty
ResultOutcomeEmptyReturns(q) ==
    IF q = <<>> THEN [kind |-> "return", msg |-> ""]
    ELSE IF Head(q).type = "error" THEN [kind |-> "failed", msg |-> Head(q).msg]
    ELSE [kind |-> "return", msg |-> ""]

\* result processing that does not test for 'error' in the message
ResultOutcomeIgnoresError(q) ==
    IF q = <<>> THEN [kind |-> "failed", msg |-> "no_result"]
    ELSE [kind |-> "return", msg |-> ""]

\* 'Processa resultado': what transcribe_file makes of the result queue q
ResultOutcome(q) ==
    IF q = <<>> THEN [kind |-> "failed", msg |-> "no_result"]
    ELSE IF Head(q).type = "error" THEN [kind |-> "failed", msg |-> Head(q).msg]
    ELSE [kind |-> "return", msg |-> ""]

\* after the loop: the result is taken off the queue; output_callback is
\* invoked for an output path, handle_generic_error for an exception
TfResult ==
    /\ bpc = "tf_result"
    /\ LET q == result_queue
           r == ResultOutcome(q)
       IN /\ pending' = r
          /\ result_queue' = IF q = <<>> THEN q ELSE Tail(q)
          /\ job' = [job EXCEPT
                 !.read = IF q = <<>> THEN NoMessage ELSE Head(q),
                 !.callbacks = IF r.kind = "return" THEN @ + 1 ELSE @,
                 !.error_dialogs = IF r.kind = "failed" THEN @ + 1 ELSE @]
    /\ bpc' = "tf_fin1"
    /\ UNCHANGED <<mvars, status, current_item, gvars, idx, worker, submitted>>
    /\ UNCHANGED <<qvars, fvars, run, others>>

\* the outcome of a call of transcribe_file that ends with p
OutcomeOf(p) ==
    IF p.kind = "return" THEN "Completed"
    ELSE IF p.kind = "cancelled" THEN "Cancelled"
    ELSE "Failed"

\* transcribe_file ends with p, leaving transcription_process = tp and
\* cancel_transcription = c
JobEnded(p, tp, c) ==
    [job EXCEPT !.outcome = OutcomeOf(p),
                !.message = p.msg,
                !.ends = @ + 1,
                !.alive_at_end = IsAlive(idx),
                !.process_at_end = tp,
                !.cancel_at_end = c]

\* an AttributeError raised inside the finally block replaces the pending
\* result and leaves transcribe_file at once
FinallyRaises ==
    /\ pending' = [kind |-> "failed", msg |-> "attribute_error"]
    /\ job' = JobEnded([kind |-> "failed", msg |-> "attribute_error"],
                       transcription_process, cancel_transcription)
    /\ bpc' = "pf_after"

\* finally: 'if self.transcription_process is not None'
TfFin1 ==
    /\ bpc = "tf_fin1"
    /\ bpc' = IF transcription_process = None THEN "tf_fin3" ELSE "tf_fin2"
    /\ UNCHANGED <<mvars, status, current_item, gvars, idx, pending, result_queue,
                   worker, submitted, job>>
    /\ UNCHANGED <<qvars, fvars, run, others>>

\* finally: 'if self.transcription_process.is_alive(): ...join()'; the call
\* goes on once the process is not alive
TfFin2 ==
    /\ bpc = "tf_fin2"
    /\ IF transcription_process = None
       THEN FinallyRaises
       ELSE /\ ~IsAlive(transcription_process)
            /\ bpc' = "tf_fin_none"
            /\ UNCHANGED <<pending, job>>
    /\ UNCHANGED <<mvars, status, current_item, gvars, idx, result_queue, worker,
                   submitted>>
    /\ UNCHANGED <<qvars, fvars, run, others>>

\* finally: 'self.transcription_process = None'
TfFinNone ==
    /\ bpc = "tf_fin_none"
    /\ transcription_process' = None
    /\ bpc' = "tf_fin3"
    /\ UNCHANGED <<is_transcribing, cancel_transcription, status, current_item, gvars,
                   idx, pending, result_queue, worker, submitted, job>>
    /\ UNCHANGED <<qvars, fvars, run, others>>

\* finally: 'self.cancel_transcription = False'; transcribe_file ends
TfFin3 ==
    /\ bpc = "tf_fin3"
    /\ cancel_transcription' = FALSE
    /\ job' = JobEnded(pending, transcription_process, FALSE)
    /\ bpc' = "pf_after"
    /\ UNCHANGED <<is_transcribing, transcription_process, status, current_item, gvars,
                   idx, pending, result_queue, worker, submitted>>
    /\ UNCHANGED <<qvars, fvars, run, others>>

\* the status process_files writes for the way transcribe_file ended
StatusOf(p) ==
    IF p.kind = "return" THEN StFinalizado
    ELSE IF p.kind = "cancelled" THEN StCancelado
    ELSE StErro

\* process_files: the try body after the call, or the except clause taken
PfAfter ==
    /\ bpc = "pf_after"
    /\ status' = [status EXCEPT ![idx] = StatusOf(pending)]
    /\ pending' = [kind |-> "none", msg |-> ""]
    /\ bpc' = "pf_finally"
    /\ UNCHANGED <<mvars, current_item, gvars, idx, result_queue, worker, submitted,
                   job>>
    /\ UNCHANGED <<qvars, fvars, run, others>>

\* once the call of transcribe_file is over its queues are unreachable: of
\* the job's worker process only its being alive or not matters from here on
Reaped(w) ==
    [NoWorker EXCEPT !.pc = IF w.pc \in WorkerAlivePcs THEN "w_detached" ELSE "gone"]

\* process_files: the finally clause of the loop body; the locals of the
\* call of transcribe_file are gone
PfFinally ==
    /\ bpc = "pf_finally"
    /\ current_item' = None
    /\ idx' = idx + 1
    /\ bpc' = "pf_loop"
    /\ job' = NoJob
    /\ result_queue' = <<>>
    /\ worker' = [worker EXCEPT ![idx] = Reaped(@)]
    /\ UNCHANGED <<mvars, status, gvars, pending, submitted>>
    /\ run' = [run EXCEPT !.cancelled_job = @ \/ job.cancel_alive]
    /\ UNCHANGED <<qvars, fvars, others>>

\* process_files after the loop: 'is_transcribing = False'
PfEnd ==
    /\ bpc = "pf_end"
    /\ is_transcribing' = FALSE
    /\ bpc' = "pf_message"
    /\ UNCHANGED <<cancel_transcription, transcription_process, status, current_item,
                   gvars, idx, pending, result_queue, worker, submitted, job>>
    /\ UNCHANGED <<qvars, fvars, run, others>>

\* process_files: the closing message box; the cancel flag is reset
PfMessage ==
    /\ bpc = "pf_message"
    /\ cancel_transcription' = FALSE
    /\ bpc' = "stopped"
    /\ UNCHANGED <<is_transcribing, transcription_process, status, current_item, gvars,
                   idx, pending, result_queue, worker, submitted, job>>
    /\ run' = [run EXCEPT !.message = IF cancel_transcription THEN MsgCancelado
                                     ELSE MsgConcluido]
    /\ UNCHANGED <<qvars, fvars, others>>

BatchNext ==
    \/ PfBegin \/ PfLoop \/ PfStatus \/ PfMark
    \/ TfBegin \/ TfCond1 \/ TfCond2 \/ TfCancel
    \/ TfC1 \/ TfC2 \/ TfC3 \/ TfC4 \/ TfC5 \/ TfCancelRaise
    \/ TfResult \/ TfFin1 \/ TfFin2 \/ TfFinNone \/ TfFin3
    \/ PfAfter \/ PfFinally \/ PfEnd \/ PfMessage

(***************************************************************************)
(* The GUI thread: start_transcription and on_closing                      *)
(***************************************************************************)

\* start_transcription; the start button is enabled only while no batch runs
StartTranscription ==
    /\ gpc = "idle"
    /\ bpc = "stopped"
    /\ cancel_transcription' = FALSE
    /\ is_transcribing' = TRUE
    /\ bpc' = "pf_begin"
    /\ UNCHANGED <<transcription_process, status, current_item, gvars, idx, pending,
                   result_queue, worker, submitted, job>>
    /\ run' = NoRun
    /\ UNCHANGED <<qvars, fvars, others>>

\* on_closing: a transcription is running, the user confirms, the flag is set
OcConfirm ==
    /\ gpc = "idle"
    /\ is_transcribing
    /\ cancel_transcription' = TRUE
    /\ gpc' = "oc_read"
    /\ job' = IF bpc \in TfPcs
              THEN [job EXCEPT !.cancel_seen = TRUE,
                               !.cancel_alive = @ \/ IsAlive(idx)]
              ELSE job
    /\ UNCHANGED <<is_transcribing, transcription_process, status, current_item,
                   oc_proc, bvars, result_queue, worker, submitted>>
    /\ run' = [run EXCEPT !.confirmed = TRUE]
    /\ UNCHANGED <<qvars, fvars, others>>

\* on_closing: 'transcription_process = ...manager.transcription_process'
OcRead ==
    /\ gpc = "oc_read"
    /\ oc_proc' = transcription_process
    /\ gpc' = "oc_alive"
    /\ UNCHANGED <<mvars, status, current_item, bvars, result_queue, worker, submitted,
                   job>>
    /\ UNCHANGED <<qvars, fvars, run, others>>

\* on_closing: 'if transcription_process is not None and ...is_alive()'
OcAlive ==
    /\ gpc = "oc_alive"
    /\ gpc' = IF oc_proc # None /\ IsAlive(oc_proc) THEN "oc_terminate" ELSE "oc_item1"
    /\ UNCHANGED <<mvars, status, current_item, oc_proc, bvars, result_queue, worker,
                   submitted, job>>
    /\ UNCHANGED <<qvars, fvars, run, others>>

\* on_closing: 'transcription_process.terminate()'
OcTerminate ==
    /\ gpc = "oc_terminate"
    /\ worker' = Terminated(oc_proc)
    /\ gpc' = "oc_join"
    /\ UNCHANGED <<mvars, status, current_item, oc_proc, bvars, result_queue,
                   submitted, job>>
    /\ UNCHANGED <<qvars, fvars, run, others>>

\* on_closing: 'transcription_process.join()'
OcJoin ==
    /\ gpc = "oc_join"
    /\ ~IsAlive(oc_proc)
    /\ gpc' = "oc_none"
    /\ UNCHANGED <<mvars, status, current_item, oc_proc, bvars, result_queue, worker,
                   submitted, job>>
    /\ UNCHANGED <<qvars, fvars, run, others>>

\* on_closing: '...manager.transcription_process = None'
OcNone ==
    /\ gpc = "oc_none"
    /\ transcription_process' = None
    /\ gpc' = "oc_item1"
    /\ UNCHANGED <<is_transcribing, cancel_transcription, status, current_item,
                   oc_proc, bvars, result_queue, worker, submitted, job>>
    /\ UNCHANGED <<qvars, fvars, run, others>>

\* on_closing: 'if self.current_item'
OcItem1 ==
    /\ gpc = "oc_item1"
    /\ gpc' = IF current_item = None THEN "oc_flag" ELSE "oc_item2"
    /\ UNCHANGED <<mvars, status, current_item, oc_proc, bvars, result_queue, worker,
                   submitted, job>>
    /\ UNCHANGED <<qvars, fvars, run, others>>

\* on_closing: 'self.file_list.set(self.current_item, 'Status', 'Cancelado')';
\* with current_item None by now the call raises and the handler is left
OcItem2 ==
    /\ gpc = "oc_item2"
    /\ IF current_item = None
       THEN /\ gpc' = "idle"
            /\ UNCHANGED status
       ELSE /\ status' = [status EXCEPT ![current_item] = StCancelado]
            /\ gpc' = "oc_flag"
    /\ oc_proc' = None
    /\ UNCHANGED <<mvars, current_item, bvars, result_queue, worker, submitted, job>>
    /\ UNCHANGED <<qvars, fvars, run, others>>

\* on_closing: 'is_transcribing = False'; the handler returns
OcFlag ==
    /\ gpc = "oc_flag"
    /\ is_transcribing' = FALSE
    /\ gpc' = "idle"
    /\ oc_proc' = None
    /\ UNCHANGED <<cancel_transcription, transcription_process, status, current_item,
                   bvars, result_queue, worker, submitted, job>>
    /\ UNCHANGED <<qvars, fvars, run, others>>

\* the steps of on_closing after the user confirmed
CancelNext ==
    \/ OcRead \/ OcAlive \/ OcTerminate \/ OcJoin \/ OcNone
    \/ OcItem1 \/ OcItem2 \/ OcFlag

GuiNext == StartTranscription \/ OcConfirm \/ CancelNext

Next == GuiNext \/ BatchNext \/ WorkerNext

Spec == Init /\ [][Next]_vars

\* the scheduler runs every thread that can take a step; a worker may hang
LiveSpec == Spec /\ WF_vars(BatchNext) /\ WF_vars(CancelNext)

(***************************************************************************)
(* Progress reporting of one job: the progress events of                   *)
(* transcribe_file_process and the polling loop of transcribe_file that    *)
(* forwards them to progress_callback.  The job is the one of file idx;    *)
(* on_closing is one step here, its interleavings are those of Spec.       *)
(***************************************************************************)

\* what no step of progress reporting changes
prest ==
    <<is_transcribing, status, current_item, gvars, idx, submitted, job, run, fvars,
      others>>

\* the batch thread has called transcribe_file for the first file and the
\* checks of its inputs have passed
ProgressInit ==
    /\ is_transcribing = TRUE
    /\ cancel_transcription = FALSE
    /\ transcription_process = None
    /\ status = [i \in Files |-> IF i = 1 THEN StProgresso ELSE StPreparado]
    /\ current_item = 1
    /\ gpc = "idle"
    /\ oc_proc = None
    /\ bpc = "pg_start"
    /\ idx = 1
    /\ pending = [kind |-> "none", msg |-> ""]
    /\ result_queue = <<>>
    /\ worker = [i \in Files |-> NoWorker]
    /\ submitted = [i \in Files |-> 0]
    /\ job = NoJob
    /\ run = NoRun
    /\ ProgressIdle
    /\ FormatIdle
    /\ OthersIdle

\* the positions of the worker in which Process.is_alive() is True, with the
\* two positions between its progress puts
ProgressAlivePcs == WorkerAlivePcs \cup {"w_begin", "w_kwargs"}

\* 'self.transcription_process.is_alive()' of the job
PgAlive == worker[idx].pc \in ProgressAlivePcs

\* a progress table in which the second 'transcribing' event reports less
\* than the first
ProgressEventsFallingBack ==
    << [status |-> "loading_model", percent |-> 10],
       [status |-> "extracting_audio", percent |-> 20],
       [status |-> "transcribing", percent |-> 50],
       [status |-> "transcribing", percent |-> 30],
       [status |-> "saving", percent |-> 90],
       [status |-> "completed", percent |-> 100] >>

\* the progress events of transcribe_file_process, in the order of its puts
ProgressEvents ==
    << [status |-> "loading_model", percent |-> 10],
       [status |-> "extracting_audio", percent |-> 20],
       [status |-> "transcribing", percent |-> 30],
       [status |-> "transcribing", percent |-> 50],
       [status |-> "saving", percent |-> 90],
       [status |-> "completed", percent |-> 100] >>

\* 'progress_queue.put(...)' of the k-th progress event
PutProgress(k) ==
    /\ progress_queue' = Append(progress_queue, ProgressEvents[k])
    /\ sent' = Append(sent, ProgressEvents[k])

\* a step of the worker that succeeded; the next progress event is put
PwAdvance(next, k) ==
    /\ worker' = [worker EXCEPT ![idx].pc = next]
    /\ PutProgress(k)

\* a step of the worker that raised e: the except clause is next
PwRaise(e) ==
    /\ worker' = [worker EXCEPT ![idx] = [pc |-> "w_failed", err |-> e, loadable |-> TRUE]]
    /\ UNCHANGED <<progress_queue, sent>>

\* lines 506-515: the queues are created and the worker process is started
PgStart ==
    /\ bpc = "pg_start"
    /\ transcription_process' = idx
    /\ worker' = [worker EXCEPT ![idx] = [pc |-> "w_begin", err |-> "", loadable |-> TRUE]]
    /\ result_queue' = <<>>
    /\ progress_queue' = <<>>
    /\ bpc' = "pg_cond"
    /\ UNCHANGED <<cancel_transcription, pending, sent, forwarded, prest>>

\* the worker's first statement puts 'loading_model'
PwLoadingModel ==
    /\ worker[idx].pc = "w_begin"
    /\ PwAdvance("w_load", 1)
    /\ UNCHANGED <<cancel_transcription, transcription_process, bpc, pending, result_queue,
                   forwarded, prest>>

\* whisper.load_model, then 'extracting_audio'
PwLoadModel ==
    /\ worker[idx].pc = "w_load"
    /\ \/ PwAdvance("w_extract", 2)
       \/ \E e \in LoadErrors : PwRaise(e)
    /\ UNCHANGED <<cancel_transcription, transcription_process, bpc, pending, result_queue,
                   forwarded, prest>>

\* extract_audio and TranscriptionSettings.from_dict, then the first 'transcribing'
PwExtractAudio ==
    /\ worker[idx].pc = "w_extract"
    /\ \/ PwAdvance("w_kwargs", 3)
       \/ \E e \in ExtractErrors : PwRaise(e)
    /\ UNCHANGED <<cancel_transcription, transcription_process, bpc, pending, result_queue,
                   forwarded, prest>>

\* the transcribe arguments are prepared, then the second 'transcribing'
PwKwargs ==
    /\ worker[idx].pc = "w_kwargs"
    /\ PwAdvance("w_transcribe", 4)
    /\ UNCHANGED <<cancel_transcription, transcription_process, bpc, pending, result_queue,
                   forwarded, prest>>

\* model.transcribe, then 'saving'
PwTranscribe ==
    /\ worker[idx].pc = "w_transcribe"
    /\ \/ PwAdvance("w_save", 5)
       \/ \E e \in InferenceErrors : PwRaise(e)
    /\ UNCHANGED <<cancel_transcription, transcription_process, bpc, pending, result_queue,
                   forwarded, prest>>

\* format_output, then 'completed'
PwFormatOutput ==
    /\ worker[idx].pc = "w_save"
    /\ \/ PwAdvance("w_put", 6)
       \/ \E e \in FormatErrors : PwRaise(e)
    /\ UNCHANGED <<cancel_transcription, transcription_process, bpc, pending, result_queue,
                   forwarded, prest>>

\* a worker in which a failure of the clean-up after the 'completed' event
\* reaches the except clause: the error is put instead of the output path
PwPutResultCleanupRaises ==
    /\ worker[idx].pc = "w_put"
    /\ worker' = [worker EXCEPT ![idx].pc = "exited"]
    /\ result_queue' = Append(result_queue, ErrorMessage("cleanup"))
    /\ UNCHANGED <<cancel_transcription, transcription_process, bpc, pending,
                   progress_queue, sent, forwarded, prest>>

\* 'result_queue.put({'output_path': ...})'; the worker exits
PwPutResult ==
    /\ worker[idx].pc = "w_put"
    /\ worker' = [worker EXCEPT ![idx].pc = "exited"]
    /\ result_queue' = Append(result_queue, OutputMessage)
    /\ UNCHANGED <<cancel_transcription, transcription_process, bpc, pending,
                   progress_queue, sent, forwarded, prest>>

\* 'result_queue.put({'error': str(e)})' in the except clause; the worker exits
PwPutError ==
    /\ worker[idx].pc = "w_failed"
    /\ worker' = [worker EXCEPT ![idx].pc = "exited"]
    /\ result_queue' = Append(result_queue, ErrorMessage(worker[idx].err))
    /\ UNCHANGED <<cancel_transcription, transcription_process, bpc, pending,
                   progress_queue, sent, forwarded, prest>>

\* the worker dies by a crash or a kill from outside the program
PwCrash ==
    /\ PgAlive
    /\ worker' = [worker EXCEPT ![idx].pc = "crashed"]
    /\ UNCHANGED <<cancel_transcription, transcription_process, bpc, pending, result_queue,
                   progress_queue, sent, forwarded, prest>>

\* 'while self.transcription_process is not None and ...is_alive()'
PgCond ==
    /\ bpc = "pg_cond"
    /\ bpc' = IF transcription_process # None /\ PgAlive THEN "pg_empty" ELSE "pg_result"
    /\ UNCHANGED <<cancel_transcription, transcription_process, pending, result_queue,
                   worker, qvars, prest>>

\* 'while not progress_queue.empty()'; empty() of a multiprocessing queue can
\* answer True while an event the worker has put is still on its way
PgEmpty ==
    /\ bpc = "pg_empty"
    /\ \/ /\ progress_queue # <<>>
          /\ bpc' = "pg_get"
       \/ bpc' = "pg_sleep"
    /\ UNCHANGED <<cancel_transcription, transcription_process, pending, result_queue,
                   worker, qvars, prest>>

\* a get that takes the event put last
GetNowaitLast(q) == [item |-> q[Len(q)], rest |-> SubSeq(q, 1, Len(q) - 1)]

\* 'progress_queue.get_nowait()' on a queue that holds an event
GetNowait(q) == [item |-> Head(q), rest |-> Tail(q)]

\* the event is taken off the queue and handed to progress_callback; an
\* exception of the callback is swallowed and ends the draining of this round
PgGet ==
    /\ bpc = "pg_get"
    /\ progress_queue # <<>>
    /\ progress_queue' = GetNowait(progress_queue).rest
    /\ forwarded' = Append(forwarded, GetNowait(progress_queue).item)
    /\ bpc' \in {"pg_empty", "pg_sleep"}
    /\ UNCHANGED <<cancel_transcription, transcription_process, pending, result_queue,
                   worker, sent, prest>>

\* 'time.sleep(0.1)', then the cancel branch: the worker is terminated and
\* joined, the flag reset, TranscriptionCancelledException raised
PgSleep ==
    /\ bpc = "pg_sleep"
    /\ IF cancel_transcription
       THEN /\ IF transcription_process # None /\ PgAlive
               THEN /\ worker' = [worker EXCEPT ![idx].pc = "terminated"]
                    /\ transcription_process' = None
               ELSE UNCHANGED <<worker, transcription_process>>
            /\ cancel_transcription' = FALSE
            /\ pending' = [kind |-> "cancelled", msg |-> ""]
            /\ bpc' = "pg_finally"
       ELSE /\ bpc' = "pg_cond"
            /\ UNCHANGED <<cancel_transcription, transcription_process, pending, worker>>
    /\ UNCHANGED <<result_queue, qvars, prest>>

\* 'Processa resultado', after the loop
PgResult ==
    /\ bpc = "pg_result"
    /\ pending' = ResultOutcome(result_queue)
    /\ result_queue' = IF result_queue = <<>> THEN result_queue ELSE Tail(result_queue)
    /\ bpc' = "pg_finally"
    /\ UNCHANGED <<cancel_transcription, transcription_process, worker, qvars, prest>>

\* the finally block; transcribe_file ends with 'pending'
PgFinally ==
    /\ bpc = "pg_finally"
    /\ transcription_process = None \/ ~PgAlive
    /\ transcription_process' = None
    /\ cancel_transcription' = FALSE
    /\ bpc' = "pg_done"
    /\ UNCHANGED <<pending, result_queue, worker, qvars, prest>>

\* on_closing confirmed by the user: the flag is set, a live worker is
\* terminated and joined, transcription_process and is_transcribing are reset
PgOnClosing ==
    /\ is_transcribing
    /\ bpc # "pg_done"
    /\ cancel_transcription' = TRUE
    /\ IF transcription_process # None /\ PgAlive
       THEN /\ worker' = [worker EXCEPT ![idx].pc = "terminated"]
            /\ transcription_process' = None
       ELSE UNCHANGED <<worker, transcription_process>>
    /\ is_transcribing' = FALSE
    /\ UNCHANGED <<status, current_item, gvars, bvars, result_queue, submitted, job,
                   run, qvars, fvars, others>>

ProgressNext ==
    \/ PgStart
    \/ PwLoadingModel \/ PwLoadModel \/ PwExtractAudio \/ PwKwargs \/ PwTranscribe
    \/ PwFormatOutput \/ PwPutResult \/ PwPutError \/ PwCrash
    \/ PgCond \/ PgEmpty \/ PgGet \/ PgSleep \/ PgResult \/ PgFinally
    \/ PgOnClosing

ProgressSpec == ProgressInit /\ [][ProgressNext]_vars

\* the operating system runs a worker process that is not killed: after its
\* last progress event the put of the result is its next statement
ProgressLiveSpec == ProgressSpec /\ WF_vars(PwPutResult)

(***************************************************************************)
(* Output formatting: the static methods of TranscriptionManager that turn *)
(* the segments of a transcription into paragraphs, cue files and          *)
(* timestamps.  A string is the sequence of its characters.  A time is a   *)
(* whole number of ticks of half a millisecond, exact where Python has a   *)
(* float: the halves on which round() decides are inputs, and round() is   *)
(* Python's, to the even neighbour.                                        *)
(***************************************************************************)

\* the longest segment list handed to a routine
MaxSegments == 3

\* ticks in a millisecond and in a second
TicksPerMilli == 2
TicksPerSecond == 1000 * TicksPerMilli

\* a time of ms milliseconds
Ms(ms) == ms * TicksPerMilli

\* ---- characters and strings ----

Space == " "
UpperLetters == {"A", "B"}
PunctuationChars == {".", ","}

\* str.isspace, str.isupper, membership of string.punctuation
IsSpace(ch) == ch = Space
IsUpper(ch) == ch \in UpperLetters
IsPunctuation(ch) == ch \in PunctuationChars

\* str.upper and str.lower of one character
Upper(ch) == CASE ch = "a" -> "A" [] ch = "b" -> "B" [] OTHER -> ch
Lower(ch) == CASE ch = "A" -> "a" [] ch = "B" -> "b" [] OTHER -> ch

RECURSIVE LStrip(_)
LStrip(t) == IF t # <<>> /\ IsSpace(Head(t)) THEN LStrip(Tail(t)) ELSE t

RECURSIVE RStrip(_)
RStrip(t) ==
    IF t # <<>> /\ IsSpace(t[Len(t)]) THEN RStrip(SubSeq(t, 1, Len(t) - 1)) ELSE t

\* str.strip
Strip(t) == RStrip(LStrip(t))

\* sep.join(parts)
RECURSIVE Join(_, _)
Join(parts, sep) ==
    IF parts = <<>> THEN <<>>
    ELSE IF Len(parts) = 1 THEN parts[1]
    ELSE parts[1] \o sep \o Join(Tail(parts), sep)

\* the characters _clean_text keeps when punctuation is off
KeptWithoutPunctuation(ch) == ~IsPunctuation(ch) \/ IsSpace(ch)

\* _clean_text(text, settings)
CleanText(text, st) ==
    LET stripped == Strip(text)
        cased == IF st.capitalization
                 THEN IF stripped # <<>> /\ ~IsUpper(stripped[1])
                      THEN <<Upper(stripped[1])>> \o Tail(stripped)
                      ELSE stripped
                 ELSE [k \in 1..Len(stripped) |-> Lower(stripped[k])]
    IN IF ~st.punctuation THEN SelectSeq(cased, KeptWithoutPunctuation) ELSE cased

\* ---- numbers in strings ----

DigitChars == <<"0", "1", "2", "3", "4", "5", "6", "7", "8", "9">>

\* the decimal digits of n >= 0, as format() writes them
RECURSIVE Dec(_)
Dec(n) == IF n < 10 THEN <<DigitChars[n + 1]>> ELSE Dec(n \div 10) \o <<DigitChars[(n % 10) + 1]>>

\* f"{n:0w}": n >= 0 in at least w digits, zeros on the left
Pad(n, w) ==
    LET d == Dec(n)
    IN IF Len(d) >= w THEN d ELSE [k \in 1..(w - Len(d)) |-> "0"] \o d

\* round(n / d) of Python 3, d > 0 and n >= 0: halves go to the even neighbour
RoundHalfEven(n, d) ==
    LET q == n \div d
        r == n % d
    IN IF 2 * r > d \/ (2 * r = d /\ q % 2 = 1) THEN q + 1 ELSE q

\* ---- _format_timestamp_value ----

\* the values of settings.timestamp_format; "other" is any unrecognised value
TimestampFormats == {"seconds", "minutes", "timecode", "full", "other"}

\* the values of the argument 'target'
Targets == {"none", "srt", "vtt"}

\* frames per second of the timecode format
FramesPerSecond == 25

\* a tenths digit rounded to the nearest tenth
TenthsRounded(millis) == (millis * 10 + 500) \div 1000

\* 'int((millis / 1000) * 10)'
Tenths(millis) == (millis * 10) \div 1000

\* a formatter in which the configured format wins over the target
FormatTimestampValueFormatFirst(secs, fmt, tgt) ==
    LET t == IF secs > 0 THEN secs ELSE 0
        milliseconds == RoundHalfEven(t, TicksPerMilli)
        hours == milliseconds \div 3600000
        remainder == milliseconds % 3600000
        minutes == remainder \div 60000
        s == (remainder % 60000) \div 1000
        millis == remainder % 1000
    IN IF fmt = "seconds"
       THEN LET tenths == RoundHalfEven(t, TicksPerSecond \div 10)
            IN Dec(tenths \div 10) \o <<".">> \o Dec(tenths % 10) \o <<"s">>
       ELSE IF fmt = "minutes"
       THEN Pad(hours * 60 + minutes, 2) \o <<":">> \o Pad(s, 2) \o <<".">>
                \o Pad(Tenths(millis), 1)
       ELSE IF tgt = "srt"
       THEN Pad(hours, 2) \o <<":">> \o Pad(minutes, 2) \o <<":">> \o Pad(s, 2)
                \o <<",">> \o Pad(millis, 3)
       ELSE IF tgt = "vtt"
       THEN Pad(hours, 2) \o <<":">> \o Pad(minutes, 2) \o <<":">> \o Pad(s, 2)
                \o <<".">> \o Pad(millis, 3)
       ELSE Pad(hours, 2) \o <<":">> \o Pad(minutes, 2) \o <<":">> \o Pad(s, 2)

\* _format_timestamp_value(seconds, fmt, target)
FormatTimestampValue(secs, fmt, tgt) ==
    LET t == IF secs > 0 THEN secs ELSE 0
        milliseconds == RoundHalfEven(t, TicksPerMilli)
        hours == milliseconds \div 3600000
        remainder == milliseconds % 3600000
        minutes == remainder \div 60000
        s == (remainder % 60000) \div 1000
        millis == remainder % 1000
    IN IF tgt = "srt"
       THEN Pad(hours, 2) \o <<":">> \o Pad(minutes, 2) \o <<":">> \o Pad(s, 2)
                \o <<",">> \o Pad(millis, 3)
       ELSE IF tgt = "vtt"
       THEN Pad(hours, 2) \o <<":">> \o Pad(minutes, 2) \o <<":">> \o Pad(s, 2)
                \o <<".">> \o Pad(millis, 3)
       ELSE IF fmt = "seconds"
       THEN LET tenths == RoundHalfEven(t, TicksPerSecond \div 10)
            IN Dec(tenths \div 10) \o <<".">> \o Dec(tenths % 10) \o <<"s">>
       ELSE IF fmt = "minutes"
       THEN Pad(hours * 60 + minutes, 2) \o <<":">> \o Pad(s, 2) \o <<".">>
                \o Pad(Tenths(millis), 1)
       ELSE IF fmt = "timecode"
       THEN LET fractional == t % TicksPerSecond
                frames == RoundHalfEven(fractional * FramesPerSecond, TicksPerSecond)
            IN Pad(hours, 2) \o <<":">> \o Pad(minutes, 2) \o <<":">> \o Pad(s, 2)
                   \o <<":">> \o Pad(frames, 2)
       ELSE Pad(hours, 2) \o <<":">> \o Pad(minutes, 2) \o <<":">> \o Pad(s, 2)

\* ---- AdvancedSettingsWindow._format_preview_timestamp ----

\* update_preview: the 'mode' it hands to _format_preview_timestamp, "srt" or
\* "vtt" for a cue file and the configured timestamp format otherwise
PreviewMode(fmt, tgt) == IF tgt \in {"srt", "vtt"} THEN tgt ELSE fmt

\* f"{secs:0w.df}" of a time below a minute: rounded to d decimals, the whole
\* part in at least w - d - 1 digits
Fixed(t, w, d) ==
    LET unit == IF d = 1 THEN 10 ELSE 100
        n == RoundHalfEven(t, TicksPerSecond \div unit)
    IN Pad(n \div unit, w - d - 1) \o <<".">> \o Pad(n % unit, d)

\* _format_preview_timestamp(seconds, mode), seconds >= 0
FormatPreviewTimestamp(secs, mode) ==
    LET hours == secs \div (3600 * TicksPerSecond)
        minutes == (secs % (3600 * TicksPerSecond)) \div (60 * TicksPerSecond)
        s == (secs % (60 * TicksPerSecond)) \div TicksPerSecond
        millis == ((secs % TicksPerSecond) * 1000) \div TicksPerSecond
    IN IF mode = "srt"
       THEN Pad(hours, 2) \o <<":">> \o Pad(minutes, 2) \o <<":">> \o Pad(s, 2)
                \o <<",">> \o Pad(millis, 3)
       ELSE IF mode = "vtt"
       THEN Pad(hours, 2) \o <<":">> \o Pad(minutes, 2) \o <<":">> \o Pad(s, 2)
                \o <<".">> \o Pad(millis, 3)
       ELSE IF mode = "seconds"
       THEN LET tenths == RoundHalfEven(secs, TicksPerSecond \div 10)
            IN Dec(tenths \div 10) \o <<".">> \o Dec(tenths % 10) \o <<"s">>
       ELSE IF mode = "minutes"
       THEN Pad(secs \div (60 * TicksPerSecond), 2) \o <<":">>
                \o Fixed(secs % (60 * TicksPerSecond), 4, 1)
       ELSE IF mode = "timecode"
       THEN LET frames == ((secs % TicksPerSecond) * FramesPerSecond) \div TicksPerSecond
            IN Pad(hours, 2) \o <<":">> \o Pad(minutes, 2) \o <<":">> \o Pad(s, 2)
                   \o <<":">> \o Pad(frames, 2)
       ELSE Pad(hours, 2) \o <<":">> \o Pad(minutes, 2) \o <<":">>
                \o Fixed(secs % (60 * TicksPerSecond), 5, 2)

\* ---- segments ----

\* dict.get(key, default) of a segment: a segment is a record of the keys it has
Get(seg, key, default) == IF key \in DOMAIN seg THEN seg[key] ELSE default

\* ---- _build_paragraphs ----

\* a test that also breaks at a pause equal to the threshold
BreaksAtThreshold(pause, threshold) == pause >= threshold

\* 'if pause > pause_threshold'
Breaks(pause, threshold) == pause > threshold

\* 'pause_threshold = 2.0 + (settings.paragraph_sensitivity / 100.0) * 3.0'
PauseThreshold(sensitivity) ==
    2 * TicksPerSecond + (sensitivity * 3 * TicksPerSecond) \div 100

\* update_sensitivity_label: 'pause_time = 0.5 + (value / 100.0) * 4.5', the
\* pause the settings window shows for the same setting
PauseTime(value) ==
    TicksPerSecond \div 2 + (value * 9 * TicksPerSecond) \div 200

\* the for loop over the segments from its i-th round on: the groups closed
\* so far and the group that is open
RECURSIVE GroupLoop(_, _, _, _, _)
GroupLoop(segs, i, threshold, closed, current_group) ==
    IF i > Len(segs) THEN [groups |-> closed, current_group |-> current_group]
    ELSE LET grown == Append(current_group, segs[i])
             pause == Get(segs[i + 1], "start", 0) - Get(segs[i], "end", 0)
         IN IF i < Len(segs) /\ Breaks(pause, threshold)
            THEN GroupLoop(segs, i + 1, threshold, Append(closed, grown), <<>>)
            ELSE GroupLoop(segs, i + 1, threshold, closed, grown)

\* a last step that appends the open group whether or not it holds a segment
LastGroupAlways(loop) == Append(loop.groups, loop.current_group)

\* 'if current_group: groups.append(current_group)'
LastGroup(loop) ==
    IF loop.current_group # <<>> THEN Append(loop.groups, loop.current_group)
    ELSE loop.groups

\* the local 'groups' of _build_paragraphs
Groups(segs, st) ==
    IF st.auto_paragraphs
    THEN LastGroup(GroupLoop(segs, 1, PauseThreshold(st.paragraph_sensitivity), <<>>, <<>>))
    ELSE [k \in 1..Len(segs) |-> <<segs[k]>>]

\* '" ".join(seg.get("text", "").strip() for seg in group)', then _clean_text
Combined(group, st) ==
    CleanText(Join([k \in 1..Len(group) |-> Strip(Get(group[k], "text", <<>>))], <<Space>>),
              st)

\* "[timestamp] text"
Stamped(time, text, st) ==
    <<"[">> \o FormatTimestampValue(time, st.timestamp_format, "none") \o <<"]", Space>>
        \o text

\* the "[timestamp] text" parts of the segments of a group whose text is not empty
RECURSIVE ParaParts(_, _)
ParaParts(group, st) ==
    IF group = <<>> THEN <<>>
    ELSE LET text == CleanText(Strip(Get(Head(group), "text", <<>>)), st)
         IN (IF text # <<>> THEN <<Stamped(Get(Head(group), "start", 0), text, st)>> ELSE <<>>)
                \o ParaParts(Tail(group), st)

\* a version that stamps the paragraph without looking at include_timestamps
ParagraphOfIgnoringSwitch(group, st) ==
    IF st.timestamp_mode = "paragraph"
    THEN IF Combined(group, st) # <<>>
         THEN <<Stamped(Get(group[1], "start", 0), Combined(group, st), st)>>
         ELSE <<>>
    ELSE IF Combined(group, st) # <<>> THEN <<Combined(group, st)>> ELSE <<>>

\* the paragraphs one group adds to the list: one or none
ParagraphOf(group, st) ==
    IF st.include_timestamps /\ st.timestamp_mode = "paragraph"
    THEN IF Combined(group, st) # <<>>
         THEN <<Stamped(Get(group[1], "start", 0), Combined(group, st), st)>>
         ELSE <<>>
    ELSE IF st.include_timestamps /\ st.timestamp_mode = "segment"
    THEN IF ParaParts(group, st) # <<>>
         THEN <<Join(ParaParts(group, st), <<Space>>)>>
         ELSE <<>>
    ELSE IF Combined(group, st) # <<>> THEN <<Combined(group, st)>> ELSE <<>>

RECURSIVE ParagraphsOf(_, _)
ParagraphsOf(grps, st) ==
    IF grps = <<>> THEN <<>>
    ELSE (IF Head(grps) = <<>> THEN <<>> ELSE ParagraphOf(Head(grps), st))
             \o ParagraphsOf(Tail(grps), st)

\* the list _build_paragraphs returns: the paragraphs of the groups or, when
\* there is none, the whole text as one paragraph
Paragraphs(segs, st) ==
    LET built == ParagraphsOf(Groups(segs, st), st)
    IN IF built # <<>> THEN built
       ELSE IF Combined(segs, st) # <<>> THEN <<Combined(segs, st)>>
       ELSE <<>>

\* ---- _save_txt, _save_docx ----

\* 'fp.write("\n\n".join(paragraphs))' as the lines of the file: the
\* paragraphs with an empty line between two of them
RECURSIVE TxtLines(_)
TxtLines(paras) ==
    IF paras = <<>> THEN <<>>
    ELSE IF Len(paras) = 1 THEN <<paras[1]>>
    ELSE <<paras[1], <<>>>> \o TxtLines(Tail(paras))

\* 'if para_text.strip()'
NotBlank(para_text) == Strip(para_text) # <<>>

\* the paragraphs _save_docx adds to the document
DocxParagraphs(paras) == SelectSeq(paras, NotBlank)

\* ---- _save_srt, _save_vtt ----

Arrow == <<Space, "-", "-", ">", Space>>

\* the cue line "start --> end" for the given target
CueTimes(seg, st, tgt) ==
    FormatTimestampValue(Get(seg, "start", 0), st.timestamp_format, tgt) \o Arrow
        \o FormatTimestampValue(Get(seg, "end", 0), st.timestamp_format, tgt)

\* the lines _save_srt writes for the segments from the i-th on
RECURSIVE SrtLines(_, _, _)
SrtLines(segs, i, st) ==
    IF i > Len(segs) THEN <<>>
    ELSE LET text == CleanText(Get(segs[i], "text", <<>>), st)
         IN (IF Strip(text) # <<>>
             THEN <<Dec(i), CueTimes(segs[i], st, "srt"), Strip(text), <<>>>>
             ELSE <<>>)
                \o SrtLines(segs, i + 1, st)

\* the lines _save_vtt writes for the segments from the i-th on
RECURSIVE VttCues(_, _, _)
VttCues(segs, i, st) ==
    IF i > Len(segs) THEN <<>>
    ELSE LET text == CleanText(Get(segs[i], "text", <<>>), st)
         IN (IF Strip(text) # <<>>
             THEN <<CueTimes(segs[i], st, "vtt"), Strip(text), <<>>>>
             ELSE <<>>)
                \o VttCues(segs, i + 1, st)

\* 'fp.write("WEBVTT\n\n")'
VttHeader == << <<"W", "E", "B", "V", "T", "T">>, <<>> >>

\* ---- _save_json ----

\* a value of the JSON file that is a number or null: <<>> is null, <<v>> is
\* the number v
JsonNull == <<>>
JsonNumber(v) == <<v>>

\* 'segment.get(key)' as json.dump writes it
GetJson(seg, key) == IF key \in DOMAIN seg THEN JsonNumber(seg[key]) ELSE JsonNull

\* payload["segments"]
JsonSegments(segs, st) ==
    [k \in 1..Len(segs) |->
        [start |-> GetJson(segs[k], "start"),
         end |-> GetJson(segs[k], "end"),
         text |-> CleanText(Get(segs[k], "text", <<>>), st)]]

\* ---- the inputs ----

\* the segments a list is made of: the three of a plain recording, a segment
\* of punctuation only, an empty one of blanks only, and one that ends on a
\* half millisecond below a second and lasts a hundred hours
CandidateSegments ==
    { [start |-> Ms(0), end |-> Ms(2000), text |-> <<"a", "b">>],
      [start |-> Ms(2200), end |-> Ms(4000), text |-> <<Space, "b", "a", ".", Space>>],
      [start |-> Ms(10000), end |-> Ms(11000), text |-> <<"A", "b">>],
      [start |-> Ms(7500), end |-> Ms(8000), text |-> <<".", ",">>],
      [start |-> Ms(4000), end |-> Ms(4000), text |-> <<Space>>],
      [start |-> Ms(999) + 1, end |-> Ms(360000000), text |-> <<".", "a">>] }

SegmentLists == UNION {[1..n -> CandidateSegments] : n \in 0..MaxSegments}

\* segments that lack keys: one without start and end, one without text, one
\* with an end only
PartialSegments ==
    { [text |-> <<"a", ".">>],
      [start |-> Ms(2200), end |-> Ms(4000)],
      [end |-> Ms(2000)] }

\* the segment lists handed to _save_json: of whole and of partial segments
JsonSegmentLists ==
    UNION {[1..n -> PartialSegments \cup
                    {seg \in CandidateSegments : seg.start \in {Ms(0), Ms(999) + 1}}] :
           n \in 0..MaxSegments}

\* the values of settings.paragraph_sensitivity, of the scale 0..100
Sensitivities == {0, 1, 25, 50, 75, 99, 100}

\* the times handed to _format_timestamp_value: negative, zero, the halves
\* of a millisecond, fractions around 0.96, 0.98 and 0.99, times that round
\* up to the next second, minute, hour, and times over 100 minutes and hours.
\* On each of them the exact arithmetic of the model gives what the float
\* arithmetic of Python gives; a time like 125.98, where the float error of
\* 'seconds - floor(seconds)' decides a half, is not among them.
Times ==
    { 0 - Ms(1000), 0, 1, 3, 5, Ms(500), Ms(960), Ms(979), Ms(980), Ms(990), Ms(999) + 1,
      Ms(1999) + 1, Ms(59999) + 1, Ms(125500), Ms(125960), Ms(125990),
      Ms(3599999) + 1, Ms(3725000), Ms(6000000), Ms(359999999) + 1, Ms(360000000) }

\* the times handed to _format_preview_timestamp: whole milliseconds from 0
\* on.  On each of them the exact arithmetic of the model gives what the
\* float arithmetic of Python gives; a time like 1.001, where the float error
\* of 'seconds % 1' decides the truncation, is not among them.
PreviewTimes ==
    { 0, Ms(300), Ms(500), Ms(960), Ms(1500), Ms(59960), Ms(125500), Ms(3725000),
      Ms(6000000), Ms(360000000) }

\* the longest text handed to _clean_text
MaxText == 3

\* the characters of a text: a lower and an upper case letter, a punctuation
\* mark and a blank
TextChars == {"a", "A", ".", Space}

\* the texts handed to _clean_text
Texts == UNION {[1..n -> TextChars] : n \in 0..MaxText}

\* the routines that format one time
StampRoutines == {"_format_timestamp_value", "_format_preview_timestamp"}

\* the routines that write the paragraphs of _build_paragraphs
ParagraphRoutines == {"_save_txt", "_save_docx"}

\* the values of settings.timestamp_mode
TimestampModes == {"none", "paragraph", "segment", "word"}

\* include_timestamps and timestamp_mode as the paragraph routines are given
\* them: every mode with the timestamps on, two of them with the timestamps off
TimestampChoices ==
    {im \in BOOLEAN \X TimestampModes : im[1] \/ im[2] \in {"paragraph", "segment"}}

\* the values of settings.timestamp_format the paragraph routines are given
ParagraphFormats == {"seconds", "minutes", "full"}

\* the formatting routines applied
Routines ==
    {"_build_paragraphs", "_save_srt", "_save_vtt", "_save_json", "_clean_text"}
        \cup StampRoutines \cup ParagraphRoutines

\* the settings a routine is applied with: those it reads take every value
SettingsOf(routine) ==
    IF routine = "_build_paragraphs"
    THEN {[DefaultSettings EXCEPT !.auto_paragraphs = a, !.paragraph_sensitivity = v] :
              a \in BOOLEAN, v \in Sensitivities}
    ELSE IF routine \in StampRoutines
    THEN {[DefaultSettings EXCEPT !.timestamp_format = f] : f \in TimestampFormats}
    ELSE IF routine \in ParagraphRoutines
    THEN {[DefaultSettings EXCEPT !.auto_paragraphs = a, !.punctuation = pu,
                                  !.capitalization = c, !.include_timestamps = im[1],
                                  !.timestamp_mode = im[2], !.timestamp_format = f] :
              a \in BOOLEAN, pu \in BOOLEAN, c \in BOOLEAN, im \in TimestampChoices,
              f \in ParagraphFormats}
    ELSE IF routine \in {"_clean_text", "_save_json"}
    THEN {[DefaultSettings EXCEPT !.punctuation = pu, !.capitalization = c] :
              pu \in BOOLEAN, c \in BOOLEAN}
    ELSE {[DefaultSettings EXCEPT !.timestamp_format = f, !.punctuation = pu,
                                  !.capitalization = c] :
              f \in TimestampFormats, pu \in BOOLEAN, c \in BOOLEAN}

\* a routine is about to be applied to its arguments
FormatInit ==
    /\ OrchestratorIdle
    /\ ProgressIdle
    /\ OthersIdle
    /\ call \in Routines
    /\ segments \in (IF call \in StampRoutines \cup {"_clean_text"} THEN {<<>>}
                     ELSE IF call = "_save_json" THEN JsonSegmentLists
                     ELSE SegmentLists)
    /\ settings \in SettingsOf(call)
    /\ seconds \in (IF call = "_format_timestamp_value" THEN Times
                    ELSE IF call = "_format_preview_timestamp" THEN PreviewTimes
                    ELSE {0})
    /\ target \in (IF call \in StampRoutines THEN Targets ELSE {"none"})
    /\ fpc = "call"
    /\ groups = <<>>
    /\ pause_threshold = None
    /\ paragraphs = <<>>
    /\ fp = <<>>
    /\ stamp = <<>>
    /\ input_text \in (IF call = "_clean_text" THEN Texts ELSE {<<>>})
    /\ cleaned = <<>>
    /\ payload = <<>>

\* _build_paragraphs(segments, settings)
BuildParagraphs ==
    /\ call = "_build_paragraphs" /\ fpc = "call"
    /\ pause_threshold' = IF settings.auto_paragraphs
                          THEN PauseThreshold(settings.paragraph_sensitivity)
                          ELSE None
    /\ groups' = Groups(segments, settings)
    /\ paragraphs' = Paragraphs(segments, settings)
    /\ fpc' = "return"
    /\ UNCHANGED <<ovars, qvars, others, call, segments, settings, seconds, target, fp, stamp,
                   input_text, cleaned, payload>>

\* _save_srt(output_path, segments, result, settings)
SaveSrt ==
    /\ call = "_save_srt" /\ fpc = "call"
    /\ fp' = SrtLines(segments, 1, settings)
    /\ fpc' = "return"
    /\ UNCHANGED <<ovars, qvars, others, call, segments, settings, seconds, target, groups,
                   pause_threshold, paragraphs, stamp, input_text, cleaned, payload>>

\* _save_vtt(output_path, segments, result, settings)
SaveVtt ==
    /\ call = "_save_vtt" /\ fpc = "call"
    /\ fp' = VttHeader \o VttCues(segments, 1, settings)
    /\ fpc' = "return"
    /\ UNCHANGED <<ovars, qvars, others, call, segments, settings, seconds, target, groups,
                   pause_threshold, paragraphs, stamp, input_text, cleaned, payload>>

\* _format_timestamp_value(seconds, settings.timestamp_format, target)
FormatTimestamp ==
    /\ call = "_format_timestamp_value" /\ fpc = "call"
    /\ stamp' = FormatTimestampValue(seconds, settings.timestamp_format, target)
    /\ fpc' = "return"
    /\ UNCHANGED <<ovars, qvars, others, call, segments, settings, seconds, target, groups,
                   pause_threshold, paragraphs, fp, input_text, cleaned, payload>>

\* _format_preview_timestamp(seconds, mode)
FormatPreview ==
    /\ call = "_format_preview_timestamp" /\ fpc = "call"
    /\ stamp' = FormatPreviewTimestamp(seconds, PreviewMode(settings.timestamp_format, target))
    /\ fpc' = "return"
    /\ UNCHANGED <<ovars, qvars, others, call, segments, settings, seconds, target, groups,
                   pause_threshold, paragraphs, fp, input_text, cleaned, payload>>

\* _clean_text(text, settings)
CleanTextCall ==
    /\ call = "_clean_text" /\ fpc = "call"
    /\ cleaned' = CleanText(input_text, settings)
    /\ fpc' = "return"
    /\ UNCHANGED <<ovars, qvars, others, call, segments, settings, seconds, target, groups,
                   pause_threshold, paragraphs, fp, stamp, input_text, payload>>

\* _clean_text(cleaned, settings): the routine applied to what it returned
CleanTextAgain ==
    /\ call = "_clean_text" /\ fpc = "return"
    /\ input_text' = cleaned
    /\ cleaned' = CleanText(cleaned, settings)
    /\ fpc' = "again"
    /\ UNCHANGED <<ovars, qvars, others, call, segments, settings, seconds, target, groups,
                   pause_threshold, paragraphs, fp, stamp, payload>>

\* _save_txt(output_path, segments, result, settings)
SaveTxt ==
    /\ call = "_save_txt" /\ fpc = "call"
    /\ pause_threshold' = IF settings.auto_paragraphs
                          THEN PauseThreshold(settings.paragraph_sensitivity)
                          ELSE None
    /\ groups' = Groups(segments, settings)
    /\ paragraphs' = Paragraphs(segments, settings)
    /\ fp' = TxtLines(Paragraphs(segments, settings))
    /\ fpc' = "return"
    /\ UNCHANGED <<ovars, qvars, others, call, segments, settings, seconds, target, stamp,
                   input_text, cleaned, payload>>

\* _save_docx(output_path, segments, result, settings); fp is the list of
\* the paragraphs of the document
SaveDocx ==
    /\ call = "_save_docx" /\ fpc = "call"
    /\ pause_threshold' = IF settings.auto_paragraphs
                          THEN PauseThreshold(settings.paragraph_sensitivity)
                          ELSE None
    /\ groups' = Groups(segments, settings)
    /\ paragraphs' = Paragraphs(segments, settings)
    /\ fp' = DocxParagraphs(Paragraphs(segments, settings))
    /\ fpc' = "return"
    /\ UNCHANGED <<ovars, qvars, others, call, segments, settings, seconds, target, stamp,
                   input_text, cleaned, payload>>

\* _save_json(output_path, segments, result, settings)
SaveJson ==
    /\ call = "_save_json" /\ fpc = "call"
    /\ payload' = JsonSegments(segments, settings)
    /\ fpc' = "return"
    /\ UNCHANGED <<ovars, qvars, others, call, segments, settings, seconds, target, groups,
                   pause_threshold, paragraphs, fp, stamp, input_text, cleaned>>

FormatNext ==
    \/ BuildParagraphs \/ SaveSrt \/ SaveVtt \/ SaveTxt \/ SaveDocx \/ SaveJson
    \/ FormatTimestamp \/ FormatPreview
    \/ CleanTextCall \/ CleanTextAgain

FormatSpec == FormatInit /\ [][FormatNext]_vars

(***************************************************************************)
(* Model download: QualitySelectionWindow.download_model starts a thread   *)
(* (download_thread) that calls ModelDownloader.download_model; the cancel *)
(* button of the progress window sets the Event the thread polls.  The     *)
(* model file is the one at caminho_modelo; every download started from    *)
(* the window is for the same model, so for the same path.                 *)
(***************************************************************************)

\* verify_download that accepts whatever file is there
VerifyDownloadExistsOnly(f) == f.exists

\* verify_download(caminho_modelo, ...): the file exists, has the expected
\* size and torch.load reads it
VerifyDownload(f) == f.exists /\ f.content = "complete"

\* 'tentativa == max_tentativas' in place of the test of the last attempt
LastAttemptOffByOne(tentativa) == tentativa = MaxTentativas

\* 'if tentativa == max_tentativas - 1'
LastAttempt(tentativa) == tentativa = MaxTentativas - 1

\* os.remove(caminho_modelo) seen from the open files: a writer keeps its
\* file object, which is no longer the file at the path
Unlinked(d) ==
    [u \in Downloads |->
        IF d[u].handle = "linked" THEN [d[u] EXCEPT !.handle = "unlinked"] ELSE d[u]]

\* download_model of download t ends: it returns or raises e
DmEnds(d, t, how, e) ==
    [d EXCEPT ![t].pc = "d_caller", ![t].outcome = how, ![t].error = e,
              ![t].handle = "closed", ![t].tentativa = 0, ![t].exc = ""]

\* lines 1031-1035 and 1041-1046, the handlers after the file is removed:
\* the cancel is raised again, the last attempt shows the download-error
\* dialog and raises, any other attempt continues the loop, which returns
\* None when it has no attempt left
Decide(d, t) ==
    IF d[t].exc = "cancel"
    THEN DmEnds(d, t, "raised", "cancelled")
    ELSE IF LastAttempt(d[t].tentativa)
    THEN DmEnds([d EXCEPT ![t].error_dialogs = @ + 1], t, "raised", "failed")
    ELSE IF d[t].tentativa + 1 < MaxTentativas
    THEN [d EXCEPT ![t].tentativa = @ + 1, ![t].pc = "d_attempt"]
    ELSE DmEnds(d, t, "fell_through", "")

\* lines 1029 and 1039: 'if os.path.exists(caminho_modelo)' of a handler
\* that caught e; without a file the handler decides at once
HandlerExists(d, t, e, f) ==
    LET caught == [d EXCEPT ![t].exc = e, ![t].handle = "closed"]
    IN IF f.exists THEN [caught EXCEPT ![t].pc = "d_h_remove"]
       ELSE Decide(caught, t)

\* what no step of a download changes
drest == <<ovars, qvars, fvars, svars>>

\* QualitySelectionWindow.download_model: the button is disabled, the
\* progress window built (it takes the grab, so the button can be pressed
\* only while no progress window is up), the Event cleared and the thread
\* started
QwDownloadModel(t) ==
    /\ btn_download = "normal"
    /\ progress_window = None
    /\ dl[t].pc = "unstarted"
    /\ \A u \in Downloads : u < t => dl[u].pc # "unstarted"
    /\ btn_download' = "disabled"
    /\ progress_window' = t
    /\ cancel_download' = FALSE
    /\ dl' = [dl EXCEPT ![t].pc = "d_exists"]
    /\ UNCHANGED model_file
    /\ UNCHANGED drest

\* cancel_download_process, confirmed by the user: the Event is set, the
\* progress window destroyed, the download button enabled
CancelDownloadProcess(t) ==
    /\ progress_window = t
    /\ cancel_download' = TRUE
    /\ progress_window' = None
    /\ btn_download' = IF btn_download = "destroyed" THEN btn_download ELSE "normal"
    /\ UNCHANGED <<model_file, dl>>
    /\ UNCHANGED drest

\* download_model, lines 954-967: the model directory is there;
\* 'if os.path.exists(caminho_modelo)'
DmExists(t) ==
    /\ dl[t].pc = "d_exists"
    /\ dl' = [dl EXCEPT ![t].pc = IF model_file.exists THEN "d_verify_old"
                                  ELSE "d_attempt"]
    /\ UNCHANGED <<cancel_download, btn_download, progress_window, model_file>>
    /\ UNCHANGED drest

\* lines 969-971: a model that is there and valid is returned
DmVerifyOld(t) ==
    /\ dl[t].pc = "d_verify_old"
    /\ dl' = IF VerifyDownload(model_file)
             THEN DmEnds(dl, t, "returned", "")
             ELSE [dl EXCEPT ![t].pc = "d_remove_old"]
    /\ UNCHANGED <<cancel_download, btn_download, progress_window, model_file>>
    /\ UNCHANGED drest

\* line 973: os.remove of the model that is not valid; FileNotFoundError is
\* caught at line 975, and line 977 looks for the file again
DmRemoveOld(t) ==
    /\ dl[t].pc = "d_remove_old"
    /\ IF model_file.exists
       THEN /\ model_file' = NoFile
            /\ dl' = [Unlinked(dl) EXCEPT ![t].pc = "d_attempt"]
       ELSE /\ dl' = [dl EXCEPT ![t].pc = "d_old_handler"]
            /\ UNCHANGED model_file
    /\ UNCHANGED <<cancel_download, btn_download, progress_window>>
    /\ UNCHANGED drest

\* line 977: 'if os.path.exists(caminho_modelo)' of the except clause
DmOldHandler(t) ==
    /\ dl[t].pc = "d_old_handler"
    /\ dl' = [dl EXCEPT ![t].pc = IF model_file.exists THEN "d_old_remove"
                                  ELSE "d_attempt"]
    /\ UNCHANGED <<cancel_download, btn_download, progress_window, model_file>>
    /\ UNCHANGED drest

\* line 978: os.remove in the except clause; its exception leaves download_model
DmOldRemove(t) ==
    /\ dl[t].pc = "d_old_remove"
    /\ IF model_file.exists
       THEN /\ model_file' = NoFile
            /\ dl' = [Unlinked(dl) EXCEPT ![t].pc = "d_attempt"]
       ELSE /\ dl' = DmEnds(dl, t, "raised", "os_error")
            /\ UNCHANGED model_file
    /\ UNCHANGED <<cancel_download, btn_download, progress_window>>
    /\ UNCHANGED drest

\* lines 985-1001: the request is made, the disk space checked and the file
\* opened, which creates or truncates it; a request error and the
\* disk-space error (after its own dialog) go to the handlers
DmRequest(t) ==
    /\ dl[t].pc = "d_attempt"
    /\ LET made == [dl EXCEPT ![t].attempts = @ + 1]
       IN \/ /\ dl' = [made EXCEPT ![t].pc = "d_poll", ![t].handle = "linked"]
             /\ model_file' = [exists |-> TRUE, content |-> "partial"]
          \/ /\ dl' = HandlerExists(made, t, "failure", model_file)
             /\ UNCHANGED model_file
    /\ UNCHANGED <<cancel_download, btn_download, progress_window>>
    /\ UNCHANGED drest

\* lines 1002-1016: the next block arrives, the Event is polled and the
\* block written
DmPoll(t) ==
    /\ dl[t].pc = "d_poll"
    /\ dl' = IF cancel_download
             THEN [dl EXCEPT ![t].pc = "d_h_exists", ![t].exc = "cancel",
                             ![t].cancel_seen = TRUE, ![t].handle = "closed"]
             ELSE dl
    /\ UNCHANGED <<cancel_download, btn_download, progress_window, model_file>>
    /\ UNCHANGED drest

\* line 1002: the stream ends and the file is closed, complete or not, or
\* the stream fails with a request error
DmStreamEnd(t) ==
    /\ dl[t].pc = "d_poll"
    /\ \/ /\ dl' = [dl EXCEPT ![t].pc = "d_verify", ![t].handle = "closed"]
          /\ IF dl[t].handle = "linked"
             THEN \E c \in {"complete", "corrupt"} :
                     model_file' = [exists |-> TRUE, content |-> c]
             ELSE UNCHANGED model_file
       \/ /\ dl' = HandlerExists(dl, t, "failure", model_file)
          /\ UNCHANGED model_file
    /\ UNCHANGED <<cancel_download, btn_download, progress_window>>
    /\ UNCHANGED drest

\* lines 1019-1025: the download is verified and returned, or removed
DmVerify(t) ==
    /\ dl[t].pc = "d_verify"
    /\ IF VerifyDownload(model_file)
       THEN /\ dl' = DmEnds(dl, t, "returned", "")
            /\ UNCHANGED model_file
       ELSE /\ model_file' = NoFile
            /\ dl' = [Unlinked(dl) EXCEPT ![t].pc = "d_h_exists", ![t].exc = "failure"]
    /\ UNCHANGED <<cancel_download, btn_download, progress_window>>
    /\ UNCHANGED drest

\* line 1039 after the cancel or the failed verification
DmHandlerExists(t) ==
    /\ dl[t].pc = "d_h_exists"
    /\ dl' = HandlerExists(dl, t, dl[t].exc, model_file)
    /\ UNCHANGED <<cancel_download, btn_download, progress_window, model_file>>
    /\ UNCHANGED drest

\* lines 1030 and 1040: os.remove in a handler; its exception leaves
\* download_model
DmHandlerRemove(t) ==
    /\ dl[t].pc = "d_h_remove"
    /\ IF model_file.exists
       THEN /\ model_file' = NoFile
            /\ dl' = Decide(Unlinked(dl), t)
       ELSE /\ dl' = DmEnds(dl, t, "raised", "os_error")
            /\ UNCHANGED model_file
    /\ UNCHANGED <<cancel_download, btn_download, progress_window>>
    /\ UNCHANGED drest

\* what is left of a download once its thread is over
Over(d, r) ==
    [NoDownload EXCEPT !.pc = "d_done", !.report = r, !.cancel_seen = d.cancel_seen]

\* download_thread after download_model returned a path: verify_model_file
\* accepts the model and the windows are destroyed, or it fails and may
\* remove the file
DownloadThreadReturned(t) ==
    /\ dl[t].pc = "d_caller"
    /\ dl[t].outcome = "returned"
    /\ \/ /\ VerifyDownload(model_file)
          /\ dl' = [dl EXCEPT ![t] = Over(@, "success")]
          /\ btn_download' = "destroyed"
          /\ progress_window' = None
          /\ UNCHANGED model_file
       \/ /\ dl' = [dl EXCEPT ![t] = Over(@, "error")]
          /\ model_file' \in {model_file, NoFile}
          /\ btn_download' = IF btn_download = "destroyed" THEN btn_download
                             ELSE "normal"
          /\ progress_window' = IF progress_window = t THEN None ELSE progress_window
    /\ UNCHANGED cancel_download
    /\ UNCHANGED drest

\* download_thread after download_model raised, or returned None: the
\* cancel message for the cancel error, the error message otherwise
DownloadThreadRaised(t) ==
    /\ dl[t].pc = "d_caller"
    /\ dl[t].outcome # "returned"
    /\ dl' = [dl EXCEPT ![t] = Over(@, IF dl[t].error = "cancelled" THEN "cancelled"
                                       ELSE "error")]
    /\ btn_download' = IF btn_download = "destroyed" THEN btn_download ELSE "normal"
    /\ progress_window' = IF progress_window = t THEN None ELSE progress_window
    /\ UNCHANGED <<cancel_download, model_file>>
    /\ UNCHANGED drest

DownloadStep(t) ==
    \/ QwDownloadModel(t) \/ CancelDownloadProcess(t)
    \/ DmExists(t) \/ DmVerifyOld(t)
    \/ DmRemoveOld(t) \/ DmOldHandler(t) \/ DmOldRemove(t)
    \/ DmRequest(t) \/ DmPoll(t) \/ DmStreamEnd(t) \/ DmVerify(t)
    \/ DmHandlerExists(t) \/ DmHandlerRemove(t)
    \/ DownloadThreadReturned(t) \/ DownloadThreadRaised(t)

DownloadNext == \E t \in Downloads : DownloadStep(t)

\* the quality window is opened with any file, or none, at caminho_modelo
DownloadInit ==
    /\ OrchestratorIdle
    /\ ProgressIdle
    /\ FormatIdle
    /\ SettingsIdle
    /\ cancel_download = FALSE
    /\ btn_download = "normal"
    /\ progress_window = None
    /\ model_file \in ExistingFiles
    /\ dl = [t \in Downloads |-> NoDownload]

DownloadSpec == DownloadInit /\ [][DownloadNext]_vars

(***************************************************************************)
(* The advanced settings window (advanced_settings.py): the flag            *)
(* settings_changed, the widgets that set it and the handlers that read it. *)
(***************************************************************************)

\* the values the user can give the widgets
OutputFormats == {"docx", "txt"}
ScaleValues == {50, 100}
LanguageStrategies == {"auto", "manual"}
QualityPresets == {"balanced", "accurate"}

\* the answers of askyesnocancel
Responses == {"yes", "no", "cancel"}

\* what no step of the settings window changes
srest == <<ovars, qvars, fvars, dvars>>

\* on_setting_change, lines 656-658: the flag is set; update_preview only
\* redraws the preview (and returns at once while preview_widget is None)
OnSettingChange(changed) == TRUE

\* toggle_language_entry, lines 660-663: the entry is enabled or disabled
\* and on_setting_change is called
ToggleLanguageEntry(changed) == OnSettingChange(changed)

\* update_sensitivity_label, lines 665-679: the label is rewritten and
\* on_setting_change is called
UpdateSensitivityLabel(changed) == OnSettingChange(changed)

\* create_formatting_tab ends with 'self.update_sensitivity_label()' (line 495)
CreateFormattingTab(changed) == UpdateSensitivityLabel(changed)

\* create_language_tab ends with 'self.toggle_language_entry()' (line 596)
CreateLanguageTab(changed) == ToggleLanguageEntry(changed)

\* create_format_tab, create_timestamp_tab and create_quality_tab build
\* widgets and call nothing
CreateQuietTab(changed) == changed

\* create_widgets, lines 140-144: the five tabs in order
CreateWidgets(changed) ==
    CreateQuietTab(CreateLanguageTab(CreateFormattingTab(
        CreateQuietTab(CreateQuietTab(changed)))))

\* the window gone: its fields are no longer looked at
Destroyed ==
    /\ settings_window' = "none"
    /\ settings_changed' = FALSE
    /\ tkvars' = gui_settings'
    /\ touched' = FALSE

\* show_advanced_settings_window with no window open, and __init__: the
\* settings copied, 'self.settings_changed = False' (line 26), the widgets
\* created from the copy (line 45)
ShowAdvancedSettingsWindow ==
    /\ settings_window = "none"
    /\ settings_window' = "open"
    /\ tkvars' = gui_settings
    /\ settings_changed' = CreateWidgets(FALSE)
    /\ touched' = FALSE
    /\ asked' = "nothing"
    /\ UNCHANGED gui_settings
    /\ UNCHANGED srest

\* the user picks another output format: the radio button has
\* command=self.on_setting_change (line 265)
SelectOutputFormat(v) ==
    /\ settings_window = "open"
    /\ v # tkvars.output_format
    /\ tkvars' = [tkvars EXCEPT !.output_format = v]
    /\ settings_changed' = OnSettingChange(settings_changed)
    /\ touched' = TRUE
    /\ UNCHANGED <<settings_window, gui_settings, asked>>
    /\ UNCHANGED srest

\* the user moves the sensitivity scale: its command is
\* update_sensitivity_label (line 489)
MoveSensitivityScale(v) ==
    /\ settings_window = "open"
    /\ v # tkvars.paragraph_sensitivity
    /\ tkvars' = [tkvars EXCEPT !.paragraph_sensitivity = v]
    /\ settings_changed' = UpdateSensitivityLabel(settings_changed)
    /\ touched' = TRUE
    /\ UNCHANGED <<settings_window, gui_settings, asked>>
    /\ UNCHANGED srest

\* the user picks another language strategy: the radio button's command is
\* toggle_language_entry (line 531)
SelectLanguageStrategy(v) ==
    /\ settings_window = "open"
    /\ v # tkvars.language_strategy
    /\ tkvars' = [tkvars EXCEPT !.language_strategy = v]
    /\ settings_changed' = ToggleLanguageEntry(settings_changed)
    /\ touched' = TRUE
    /\ UNCHANGED <<settings_window, gui_settings, asked>>
    /\ UNCHANGED srest

\* the user toggles 'Remover ruidos de fundo': the check button has no
\* command (lines 563-568)
ToggleRemoveNoise ==
    /\ settings_window = "open"
    /\ tkvars' = [tkvars EXCEPT !.remove_noise = ~@]
    /\ touched' = TRUE
    /\ UNCHANGED <<settings_window, settings_changed, gui_settings, asked>>
    /\ UNCHANGED srest

\* the user toggles 'Normalizar volume do audio': no command (lines 577-582)
ToggleNormalizeAudio ==
    /\ settings_window = "open"
    /\ tkvars' = [tkvars EXCEPT !.normalize_audio = ~@]
    /\ touched' = TRUE
    /\ UNCHANGED <<settings_window, settings_changed, gui_settings, asked>>
    /\ UNCHANGED srest

\* the user picks another quality preset: the radio buttons have no
\* command (lines 643-649)
SelectQualityPreset(v) ==
    /\ settings_window = "open"
    /\ v # tkvars.quality_preset
    /\ tkvars' = [tkvars EXCEPT !.quality_preset = v]
    /\ touched' = TRUE
    /\ UNCHANGED <<settings_window, settings_changed, gui_settings, asked>>
    /\ UNCHANGED srest

\* apply_settings, lines 834-841: the widgets' values become the settings
\* of the main window, the flag is cleared and close() destroys the window
ApplySettings ==
    /\ settings_window = "open"
    /\ gui_settings' = tkvars
    /\ Destroyed
    /\ UNCHANGED asked
    /\ UNCHANGED srest

\* close, lines 936-951: with the flag set the user is asked; 'cancel'
\* keeps the window, 'yes' applies, 'no' and a clear flag destroy the window
Close(response) ==
    /\ settings_window = "open"
    /\ IF settings_changed
       THEN /\ asked' = IF touched THEN "touched window" ELSE "untouched window"
            /\ CASE response = "cancel" ->
                    UNCHANGED <<settings_window, settings_changed, tkvars,
                                gui_settings, touched>>
              [] response = "yes" ->
                    gui_settings' = tkvars /\ Destroyed
              [] OTHER ->
                    UNCHANGED gui_settings /\ Destroyed
       ELSE /\ response = "no"
            /\ asked' = "nothing"
            /\ UNCHANGED gui_settings
            /\ Destroyed
    /\ UNCHANGED srest

SettingsNext ==
    \/ ShowAdvancedSettingsWindow
    \/ \E v \in OutputFormats : SelectOutputFormat(v)
    \/ \E v \in ScaleValues : MoveSensitivityScale(v)
    \/ \E v \in LanguageStrategies : SelectLanguageStrategy(v)
    \/ ToggleRemoveNoise
    \/ ToggleNormalizeAudio
    \/ \E v \in QualityPresets : SelectQualityPreset(v)
    \/ ApplySettings
    \/ \E response \in Responses : Close(response)

SettingsInit ==
    OrchestratorIdle /\ ProgressIdle /\ FormatIdle /\ DownloadIdle /\ SettingsIdle

SettingsSpec == SettingsInit /\ [][SettingsNext]_vars

(***************************************************************************)
(* Properties                                                              *)
(***************************************************************************)

\* the call of transcribe_file under observation has ended
Ended == job.ends >= 1

\* the messages the worker of the current job has put on the result queue:
\* the one transcribe_file took off it, then those still on it
PutMessages ==
    (IF job.read.type # "none" THEN <<job.read>> ELSE <<>>) \o result_queue

\* C1: a cancel requested while the job's worker is alive makes transcribe_file
\* end Cancelled, with the worker not alive (stated for workers that did not
\* crash by themselves)
C1_CancelEndsCancelled ==
    (Ended /\ job.cancel_alive /\ worker[idx].pc # "crashed")
        => (job.outcome = "Cancelled" /\ ~job.alive_at_end)

\* C2: every call of transcribe_file ends in exactly one of Completed, Cancelled
\* and Failed, and output_callback is invoked once when Completed, never otherwise
C2_OneOutcomeOneCallback ==
    Ended =>
        /\ job.ends = 1
        /\ job.outcome \in {"Completed", "Cancelled", "Failed"}
        /\ job.callbacks = (IF job.outcome = "Completed" THEN 1 ELSE 0)

\* C3: with no cancel requested, a worker that died without putting a message
\* makes transcribe_file end Failed with the 'no result' error
C3_NoResultFails ==
    (Ended /\ job.started /\ ~job.cancel_seen /\ job.puts = 0 /\ ~IsAlive(idx))
        => (job.outcome = "Failed" /\ job.message = "no_result")

C3_Witness ==
    /\ Ended /\ job.started /\ ~job.cancel_seen /\ job.puts = 0
    /\ worker[idx].pc = "crashed"
    /\ job.outcome = "Failed"

\* C4: once the worker of a started job is no longer alive, or a cancel is
\* requested, the call of transcribe_file eventually ends
C4_EventuallyEnds ==
    (bpc \in TfPcs /\ (~IsAlive(idx) \/ cancel_transcription)) ~> (bpc \notin TfPcs)

C4_Witness ==
    /\ Ended /\ job.outcome = "Cancelled" /\ job.cancel_alive
    /\ worker[idx].pc = "terminated"

\* C5: when transcribe_file ends the worker is not alive, transcription_process
\* is None and cancel_transcription is False
C5_CleanAtEnd ==
    Ended => (~job.alive_at_end /\ job.process_at_end = None /\ ~job.cancel_at_end)

\* the message a worker that was not killed has put by the time it has exited
ExpectedMessage(w) ==
    IF w.err = "" THEN OutputMessage ELSE ErrorMessage(w.err)

\* the worker routine puts exactly one message, the output path or the error
WorkerPutsOne ==
    (Attached(idx) /\ worker[idx].pc = "exited")
        => (job.puts = 1 /\ PutMessages = <<ExpectedMessage(worker[idx])>>)

C7_CancelDiscardsResult ==
    (Ended /\ job.outcome = "Cancelled")
        => (job.callbacks = 0 /\ job.read.type = "none" /\ pending.kind # "return")

C7_Witness ==
    /\ Ended /\ job.outcome = "Cancelled"
    /\ result_queue = <<OutputMessage>>

\* C8: a missing source file or a missing model artifact (path not configured, or
\* no file at the configured path) fails the job before any worker is started
C8_InputErrorsStartNoWorker ==
    (job.model # "ok" \/ ~job.file_exists)
        => (~job.started /\ (Ended => job.outcome = "Failed"))

\* C9: a Failed job shows exactly one error dialog, a Completed or Cancelled job none
C9_OneNotification ==
    Ended => job.error_dialogs = (IF job.outcome = "Failed" THEN 1 ELSE 0)

\* C10: no file is submitted to a worker more than once, in one run or over
\* several runs of process_files
C10_SubmittedOnce == \A i \in Files : submitted[i] <= 1

C10_Witness ==
    /\ bpc = "pf_status" /\ idx = 1
    /\ submitted[1] = 1 /\ status[1] = StErro /\ status[2] = StPreparado

\* a is b with some of its elements left out
RECURSIVE IsSubsequence(_, _)
IsSubsequence(a, b) ==
    IF a = <<>> THEN TRUE
    ELSE IF b = <<>> THEN FALSE
    ELSE IF Head(a) = Head(b) THEN IsSubsequence(Tail(a), Tail(b))
    ELSE IsSubsequence(a, Tail(b))

\* C11: the progress events handed to progress_callback are events the worker
\* put, each handed over at most once and in the order the worker put them
C11_ForwardedOnceInOrder == IsSubsequence(forwarded, sent)

C11_Witness ==
    /\ Len(forwarded) >= 2
    /\ Len(progress_queue) >= 2
    /\ bpc = "pg_get"

\* the statuses of progress events in the order a job goes through them
StatusOrder ==
    <<"loading_model", "extracting_audio", "transcribing", "saving", "completed">>

\* the place of status st in that order
StatusRank(st) == CHOOSE k \in 1..Len(StatusOrder) : StatusOrder[k] = st

\* C12: the progress events a worker sends have percent values in 0..100 that
\* never decrease, and statuses that follow the order loading_model,
\* extracting_audio, transcribing, saving, completed, wherever the worker fails
C12_ProgressMonotone ==
    /\ \A k \in 1..Len(sent) :
          /\ sent[k].percent \in 0..100
          /\ \E r \in 1..Len(StatusOrder) : StatusOrder[r] = sent[k].status
    /\ \A j, k \in 1..Len(sent) :
          j < k => /\ sent[j].percent <= sent[k].percent
                   /\ StatusRank(sent[j].status) <= StatusRank(sent[k].status)

C12_Witness ==
    /\ worker[idx].pc = "exited"
    /\ worker[idx].err = "inference"
    /\ Len(sent) = 4
    /\ sent[4].status = "transcribing"

\* _build_paragraphs has returned
Built == call = "_build_paragraphs" /\ fpc = "return"

\* the groups one after the other
RECURSIVE Flattened(_)
Flattened(grps) == IF grps = <<>> THEN <<>> ELSE Head(grps) \o Flattened(Tail(grps))

\* C13: whatever the segments (ties and overlaps included) and the settings, the
\* groups of the paragraph builder are non-empty and, one after the other, are
\* exactly the input list; an empty input gives no group
C13_GroupsPartition ==
    Built =>
        /\ \A g \in 1..Len(groups) : groups[g] # <<>>
        /\ Flattened(groups) = segments
        /\ (segments = <<>> => groups = <<>>)

C13_Witness ==
    /\ Built
    /\ settings.auto_paragraphs
    /\ Len(segments) = 3
    /\ segments[2] = segments[1]
    /\ segments[2].start < segments[1].end
    /\ Len(groups) = 2
    /\ Len(groups[1]) = 2

\* C14 as claimed: with auto_paragraphs on, the pause threshold of the builder
\* is 0.5 + (sensitivity / 100) * 4.5 seconds, lies in [0.5, 5.0], and is the
\* pause the settings window shows for that sensitivity
C14_ThresholdAsShown ==
    (Built /\ settings.auto_paragraphs) =>
        /\ pause_threshold = Ms(500) + (settings.paragraph_sensitivity * Ms(4500)) \div 100
        /\ pause_threshold >= Ms(500) /\ pause_threshold <= Ms(5000)
        /\ pause_threshold = PauseTime(settings.paragraph_sensitivity)

\* the number of the group that holds the i-th segment
GroupOf(i) ==
    CHOOSE g \in 1..Len(groups) :
        /\ Len(Flattened(SubSeq(groups, 1, g - 1))) < i
        /\ i <= Len(Flattened(SubSeq(groups, 1, g)))

\* C15: with auto_paragraphs on, consecutive segments are in different groups
\* exactly when the next one starts more than the pause threshold after the
\* previous one ended; with auto_paragraphs off every segment is a group of
\* its own; segments 0-2, 2.2-4, 10-11 at sensitivity 50 give two groups
C15_BreakIffPauseExceeds ==
    Built =>
        /\ settings.auto_paragraphs =>
              \A i \in 1..(Len(segments) - 1) :
                  (GroupOf(i) # GroupOf(i + 1))
                      <=> (segments[i + 1].start - segments[i].end > pause_threshold)
        /\ ~settings.auto_paragraphs =>
              /\ Len(groups) = Len(segments)
              /\ \A i \in 1..Len(segments) : groups[i] = <<segments[i]>>
        /\ ( /\ settings.auto_paragraphs /\ settings.paragraph_sensitivity = 50
             /\ Len(segments) = 3
             /\ segments[1].start = Ms(0) /\ segments[1].end = Ms(2000)
             /\ segments[2].start = Ms(2200) /\ segments[2].end = Ms(4000)
             /\ segments[3].start = Ms(10000) /\ segments[3].end = Ms(11000) )
               => groups = << <<segments[1], segments[2]>>, <<segments[3]>> >>

C15_Witness ==
    /\ Built
    /\ settings.auto_paragraphs
    /\ Len(segments) = 3
    /\ segments[2].start - segments[1].end = pause_threshold
    /\ segments[3].start - segments[2].end > pause_threshold
    /\ Len(groups[1]) = 2

\* the segment has text left after normalization
HasText(seg) == Strip(CleanText(seg.text, settings)) # <<>>

\* C16 as claimed: the cues of an SRT file are numbered 1, 2, ..., k without
\* gaps, k being the number of segments with text left after normalization
C16_SrtIndicesContiguous ==
    (call = "_save_srt" /\ fpc = "return") =>
        LET k == Len(SelectSeq(segments, HasText))
        IN /\ Len(fp) = 4 * k
           /\ \A j \in 1..k : fp[4 * (j - 1) + 1] = Dec(j)

\* ---- reading a formatted string back ----

IsDigit(ch) == \E d \in 1..10 : DigitChars[d] = ch
DigitValue(ch) == (CHOOSE d \in 1..10 : DigitChars[d] = ch) - 1

\* a number read in 'width' digits, and a character that is no digit
Num(n, width) == [num |-> n, width |-> width, sep |-> ""]
Sep(ch) == [num |-> 0, width |-> 0, sep |-> ch]

\* the numbers and the other characters of a string, in order
RECURSIVE Scan(_, _)
Scan(str, toks) ==
    IF str = <<>> THEN toks
    ELSE IF ~IsDigit(Head(str)) THEN Scan(Tail(str), Append(toks, Sep(Head(str))))
    ELSE IF toks # <<>> /\ toks[Len(toks)].width > 0
    THEN Scan(Tail(str),
              [toks EXCEPT ![Len(toks)] = Num(@.num * 10 + DigitValue(Head(str)), @.width + 1)])
    ELSE Scan(Tail(str), Append(toks, Num(DigitValue(Head(str)), 1)))

Tokens(str) == Scan(str, <<>>)

\* round(seconds * 1000) of a time, a negative time counting as 0
TotalMillis(time) == RoundHalfEven(IF time > 0 THEN time ELSE 0, TicksPerMilli)

\* hours, minutes, seconds and milliseconds of ms, the hours in hw digits,
\* the milliseconds after the character frac
Clock(ms, hw, frac) ==
    << Num(ms \div 3600000, hw), Sep(":"), Num((ms \div 60000) % 60, 2), Sep(":"),
       Num((ms \div 1000) % 60, 2), Sep(frac), Num(ms % 1000, 3) >>

\* the digits of the hours field: two, more from a hundred hours on
HourWidth(ms) == IF ms \div 3600000 < 100 THEN 2 ELSE Len(Dec(ms \div 3600000))

\* the fraction character of a target
FractionChar(tgt) == IF tgt = "srt" THEN "," ELSE "."

\* 'start --> end' of a segment read back, the hours in two digits
CueTokensTwoDigitHours(seg, tgt) ==
    Clock(TotalMillis(seg.start), 2, FractionChar(tgt))
        \o <<Sep(Space), Sep("-"), Sep("-"), Sep(">"), Sep(Space)>>
        \o Clock(TotalMillis(seg.end), 2, FractionChar(tgt))

\* 'start --> end' of a segment read back
CueTokens(seg, tgt) ==
    Clock(TotalMillis(seg.start), HourWidth(TotalMillis(seg.start)), FractionChar(tgt))
        \o <<Sep(Space), Sep("-"), Sep("-"), Sep(">"), Sep(Space)>>
        \o Clock(TotalMillis(seg.end), HourWidth(TotalMillis(seg.end)), FractionChar(tgt))

\* a cue file was written
Saved == call \in {"_save_srt", "_save_vtt"} /\ fpc = "return"

\* the line of the file that holds the times of the j-th cue
CueTimesLine(j) == IF call = "_save_vtt" THEN fp[2 + 3 * (j - 1) + 1] ELSE fp[4 * (j - 1) + 2]

\* C17 as claimed: for every timestamp_format the cue lines of SRT and VTT
\* files are 'HH:MM:SS,mmm --> HH:MM:SS,mmm' and 'HH:MM:SS.mmm --> HH:MM:SS.mmm'
\* with two-digit hours, minutes, seconds and three-digit milliseconds of
\* round(seconds * 1000), and a VTT file starts with WEBVTT and a blank line
C17_CueLinesTwoDigitHours ==
    Saved =>
        LET emitted == SelectSeq(segments, HasText)
            tgt == IF call = "_save_vtt" THEN "vtt" ELSE "srt"
        IN /\ Len(fp) = (IF call = "_save_vtt" THEN 2 + 3 * Len(emitted) ELSE 4 * Len(emitted))
           /\ call = "_save_vtt" => SubSeq(fp, 1, 2) = << <<"W", "E", "B", "V", "T", "T">>, <<>> >>
           /\ \A j \in 1..Len(emitted) :
                 Tokens(CueTimesLine(j)) = CueTokensTwoDigitHours(emitted[j], tgt)

\* C17: for every timestamp_format the cue lines of SRT and VTT files are
\* 'HH:MM:SS,mmm --> HH:MM:SS,mmm' and 'HH:MM:SS.mmm --> HH:MM:SS.mmm' with
\* two-digit minutes and seconds, three-digit milliseconds and hours in two
\* digits below a hundred hours and in as many as they need from there on, all
\* of round(seconds * 1000); a VTT file starts with WEBVTT and a blank line
C17_CueLines ==
    Saved =>
        LET emitted == SelectSeq(segments, HasText)
            tgt == IF call = "_save_vtt" THEN "vtt" ELSE "srt"
        IN /\ Len(fp) = (IF call = "_save_vtt" THEN 2 + 3 * Len(emitted) ELSE 4 * Len(emitted))
           /\ call = "_save_vtt" => SubSeq(fp, 1, 2) = << <<"W", "E", "B", "V", "T", "T">>, <<>> >>
           /\ \A j \in 1..Len(emitted) :
                 Tokens(CueTimesLine(j)) = CueTokens(emitted[j], tgt)

C17_Witness ==
    /\ Saved /\ call = "_save_vtt"
    /\ settings.timestamp_format = "seconds"
    /\ Len(segments) = 2
    /\ segments[1].start = Ms(999) + 1
    /\ HasText(segments[1]) /\ HasText(segments[2])
    /\ SubSeq(fp[3], 1, 12) = <<"0", "0", ":", "0", "0", ":", "0", "1", ".", "0", "0", "0">>
    /\ Len(fp) = 8

\* _format_timestamp_value has returned a timestamp in the configured format
Formatted(fmt) ==
    /\ call = "_format_timestamp_value" /\ fpc = "return"
    /\ target = "none"
    /\ settings.timestamp_format = fmt

\* C18 as claimed: in timecode format the result is HH:MM:SS:FF with FF in 0..24
C18_FramesBelow25 ==
    Formatted("timecode") =>
        /\ Len(Tokens(stamp)) = 7
        /\ Tokens(stamp)[7].width = 2
        /\ Tokens(stamp)[7].num \in 0..24

\* C19 as claimed: for the format 'full' and for an unrecognised format the
\* result is HH:MM:SS.mmm, the milliseconds in three digits
C19_FullHasMillis ==
    (Formatted("full") \/ Formatted("other")) =>
        Tokens(stamp) = Clock(TotalMillis(seconds), HourWidth(TotalMillis(seconds)), ".")

\* C20: in minutes format the result is MM:SS.d, MM the total of minutes in at
\* least two digits, SS the seconds in two digits and d the one digit
\* floor(millis / 100), never rounded up; 125.5 s gives 02:05.5, 3725 s gives
\* 62:05.0 and 125.96 s gives 02:05.9
C20_MinutesFormat ==
    Formatted("minutes") =>
        LET ms == TotalMillis(seconds)
            toks == Tokens(stamp)
        IN /\ Len(toks) = 5
           /\ toks[1].num = ms \div 60000 /\ toks[1].width >= 2
           /\ toks[2] = Sep(":")
           /\ toks[3] = Num((ms \div 1000) % 60, 2)
           /\ toks[4] = Sep(".")
           /\ toks[5] = Num((ms % 1000) \div 100, 1)
           /\ seconds = Ms(125500) => stamp = <<"0", "2", ":", "0", "5", ".", "5">>
           /\ seconds = Ms(3725000) => stamp = <<"6", "2", ":", "0", "5", ".", "0">>
           /\ seconds = Ms(125960) => stamp = <<"0", "2", ":", "0", "5", ".", "9">>

C20_Witness ==
    /\ Formatted("minutes")
    /\ seconds = Ms(125960)

\* the preview formatter has returned
Previewed == call = "_format_preview_timestamp" /\ fpc = "return"

C22_CleanTextIdempotent ==
    (call = "_clean_text" /\ fpc = "again" /\ ~settings.punctuation) => cleaned = input_text

\* _save_txt or _save_docx has returned
Wrote == call \in ParagraphRoutines /\ fpc = "return"

\* the paragraphs found in the output: every other line of the text file,
\* every paragraph of the document
WrittenParagraphs ==
    IF call = "_save_txt" THEN [k \in 1..((Len(fp) + 1) \div 2) |-> fp[2 * k - 1]] ELSE fp

\* a string without its bracketed parts
RECURSIVE Unstamped(_)
RECURSIVE InBracket(_)
Unstamped(str) ==
    IF str = <<>> THEN <<>>
    ELSE IF Head(str) = "[" THEN InBracket(Tail(str))
    ELSE <<Head(str)>> \o Unstamped(Tail(str))

InBracket(str) ==
    IF str = <<>> THEN <<>>
    ELSE IF Head(str) = "]" THEN Unstamped(Tail(str))
    ELSE InBracket(Tail(str))

\* the string has a character that is not a blank
HasInk(str) == \E k \in 1..Len(str) : ~IsSpace(str[k])

\* the number of opening brackets of a string
StampCount(str) == Cardinality({k \in 1..Len(str) : str[k] = "["})

\* C23: every paragraph of a document or a text file has a character that is
\* neither a blank nor part of a timestamp, in every timestamp mode: a group
\* whose text is empty after normalization gives no paragraph, and the text
\* file holds no blank and no timestamp-only paragraph
C23_ParagraphsHaveText ==
    Wrote =>
        /\ \A k \in 1..Len(paragraphs) : HasInk(Unstamped(paragraphs[k]))
        /\ \A k \in 1..Len(WrittenParagraphs) : HasInk(Unstamped(WrittenParagraphs[k]))

\* the text of every group is empty after normalization
AllGroupsEmpty ==
    \A g \in 1..Len(groups) :
        CleanText(Join([k \in 1..Len(groups[g]) |-> Strip(groups[g][k].text)], <<Space>>),
                  settings) = <<>>

\* C24: when the segment list is not empty and the text of every group is
\* empty after normalization, the result is exactly one paragraph, the
\* texts of all segments as they came, joined by single blanks
C24_FallbackUnfiltered ==
    (Wrote /\ segments # <<>> /\ AllGroupsEmpty) =>
        \/ paragraphs = <<Join([k \in 1..Len(segments) |-> segments[k].text], <<Space>>)>>
        \/ paragraphs = <<Join([k \in 1..Len(segments) |-> Strip(segments[k].text)],
                               <<Space>>)>>

\* the string starts with "[timestamp]", the timestamp being the start of the
\* first segment of one of the groups in the configured format
StartsWithGroupStamp(str) ==
    \E g \in 1..Len(groups) :
        LET prefix == <<"[">> \o FormatTimestampValue(groups[g][1].start,
                                                      settings.timestamp_format, "none")
                          \o <<"]">>
        IN Len(str) >= Len(prefix) /\ SubSeq(str, 1, Len(prefix)) = prefix

\* C25: with the timestamps on and timestamp_mode 'word', segments that carry
\* no word timing, every paragraph has the one timestamp of its group, the
\* start of the first segment of the group; none is without a timestamp
C25_WordModeStampsGroups ==
    (Wrote /\ settings.include_timestamps /\ settings.timestamp_mode = "word") =>
        \A k \in 1..Len(paragraphs) :
            StampCount(paragraphs[k]) = 1 /\ StartsWithGroupStamp(paragraphs[k])

\* the paragraph starts with exactly one bracketed timestamp, the start of
\* the first segment of a group, and has no other
OneGroupStamp(str) == StampCount(str) = 1 /\ StartsWithGroupStamp(str)

\* with the timestamps off or timestamp_mode 'none' no paragraph has a timestamp
NoStampWhenOff ==
    (Wrote /\ (~settings.include_timestamps \/ settings.timestamp_mode = "none")) =>
        \A k \in 1..Len(paragraphs) : StampCount(paragraphs[k]) = 0

C27_MissingFieldsDefault ==
    (call = "_save_json" /\ fpc = "return") =>
        /\ Len(payload) = Len(segments)
        /\ \A k \in 1..Len(segments) :
              /\ DOMAIN payload[k] = {"start", "end", "text"}
              /\ payload[k].start
                    = JsonNumber(IF "start" \in DOMAIN segments[k] THEN segments[k].start ELSE 0)
              /\ payload[k].end
                    = JsonNumber(IF "end" \in DOMAIN segments[k] THEN segments[k].end ELSE 0)
              /\ "text" \notin DOMAIN segments[k] => payload[k].text = <<>>

\* C28: a status of the file list that has become terminal (Finalizado,
\* Cancelado, Erro) never changes to another value, however the steps of
\* on_closing and of process_files interleave
C28_TerminalStatusStable ==
    [][\A i \in Files : IsTerminal(status[i]) => status'[i] = status[i]]_vars

\* C29: once the user has confirmed a cancel while file k of a batch was
\* being transcribed, its worker alive, no later file of that batch is
\* handed to transcribe_file
C29_NoFileAfterCancel ==
    run.cancelled_job => ~InTranscribeFile

\* C30: the closing message of a batch run is the cancelled one exactly when
\* the user confirmed a cancel during the run, and the finished one only
\* when no cancel was confirmed
C30_MessageTellsCancel ==
    run.message # "" =>
        /\ run.message = MsgCancelado <=> run.confirmed
        /\ run.message = MsgConcluido <=> ~run.confirmed

(***************************************************************************)
(* C31: the running flag and the worker                                    *)
(***************************************************************************)

\* C31: at every moment a worker process is alive, is_transcribing is True,
\* so that on_closing asks for confirmation and never takes its else branch
\* (window.destroy()) under a running job.
C31_AliveMeansTranscribing ==
    \A i \in Files : IsAlive(i) => is_transcribing

(***************************************************************************)
(* C33, C34: the last progress event and the result                        *)
(***************************************************************************)

\* the call of transcribe_file is over and returned the output path
EndedCompleted == bpc = "pg_done" /\ OutcomeOf(pending) = "Completed"

\* C33: when a job ends Completed, every progress event the worker sent,
\* the closing 'completed' event included, was handed to progress_callback
\* before transcribe_file returned.
C33_AllForwardedWhenCompleted ==
    EndedCompleted => forwarded = sent

\* the worker has sent {status: completed, percent: 100}
CompletedSent == \E k \in 1..Len(sent) : sent[k].status = "completed"

\* the result a put of the worker has just added to the result queue
PutNow == result_queue'[Len(result_queue')]

\* every result the worker puts after the 'completed' event is an output
\* path, so that a worker that puts an error has not sent the event
OutputPathAfterCompleted ==
    [][Len(result_queue') = Len(result_queue) + 1 =>
          /\ CompletedSent => PutNow.type = "output_path"
          /\ PutNow.type = "error" => ~CompletedSent]_vars

\* the worker process was ended from outside its code: terminate() of a
\* cancel, or a crash or kill
WorkerKilled == worker[idx].pc \in {"terminated", "crashed"}

\* C34 as stated: a worker that has sent the 'completed' event always puts
\* an output-path result afterwards and never an error result, and a
\* worker that puts an error result has not sent the event.
C34_CompletedThenOutputPath ==
    /\ OutputPathAfterCompleted
    /\ CompletedSent ~> worker[idx].pc = "exited"

\* C34: a worker that has sent the 'completed' event never puts an error
\* result and, unless the process is terminated or killed first, puts the
\* output path next; a worker that puts an error result has not sent the
\* event.
C34_CompletedThenOutputPathUnlessKilled ==
    /\ OutputPathAfterCompleted
    /\ CompletedSent ~> (worker[idx].pc = "exited" \/ WorkerKilled)

C34_Witness ==
    /\ CompletedSent
    /\ worker[idx].pc = "exited"
    /\ result_queue = <<OutputMessage>>

(***************************************************************************)
(* C35: the first letter of a normalized text                              *)
(***************************************************************************)

\* str.isalpha of one character
IsAlpha(ch) == Upper(ch) \in UpperLetters

\* C35: with capitalization on, a text _clean_text returns that is not empty
\* and begins with a letter begins with an uppercase letter, also when
\* punctuation is off and the input began with punctuation or blanks that
\* the routine removed.
C35_FirstLetterUpper ==
    (/\ call = "_clean_text" /\ fpc # "call"
     /\ settings.capitalization
     /\ cleaned # <<>> /\ IsAlpha(cleaned[1]))
        => IsUpper(cleaned[1])

(***************************************************************************)
(* C36 - C39: the model download                                           *)
(***************************************************************************)

\* download_model of download t ends in this step
EndsNow(t) == dl[t].pc # "d_caller" /\ dl'[t].pc = "d_caller"

\* C36: download_model makes at most 3 download attempts and ends either by
\* returning the path of a model file that has just passed verification or
\* by raising; it never falls out of the retry loop returning no value.
C36_ThreeAttemptsThenReturnOrRaise ==
    /\ [](\A t \in Downloads :
            /\ dl[t].attempts <= MaxTentativas
            /\ dl[t].outcome \in {"none", "returned", "raised"})
    /\ [][\A t \in Downloads :
            (EndsNow(t) /\ dl'[t].outcome = "returned")
                => (model_file'.exists /\ model_file'.content = "complete")]_vars

C36_Witness ==
    \E t \in Downloads :
        /\ dl[t].pc = "d_caller"
        /\ dl[t].attempts = MaxTentativas
        /\ dl[t].outcome = "raised" /\ dl[t].error = "failed"

\* C37: once the cancel event was seen set during an attempt, download_model
\* starts no further attempt, shows no download-error dialog and ends by
\* raising the 'cancelled by user' error, which download_thread reports as
\* a cancellation.
C37_CancelSeenEndsCancelled ==
    \A t \in Downloads :
        dl[t].cancel_seen =>
            /\ dl[t].pc \in {"d_h_exists", "d_h_remove", "d_caller", "d_done"}
            /\ dl[t].error_dialogs = 0
            /\ dl[t].pc = "d_caller" =>
                  (dl[t].outcome = "raised" /\ dl[t].error = "cancelled")
            /\ dl[t].pc = "d_done" => dl[t].report = "cancelled"

Writers == {t \in Downloads : dl[t].handle # "closed"}

\* C39: at most one download thread writes the model file at any time: a
\* download the user cancelled does not go on writing once a new download
\* was started.
C39_OneWriter == Cardinality(Writers) <= 1

\* C40: while the advanced settings window is open, settings_changed is
\* True exactly when the user has changed some setting since the window was
\* built: False right after the build, True after any change; closing an
\* untouched window asks nothing.
C40_ChangedIffTouched ==
    /\ settings_window = "open" => (settings_changed <=> touched)
    /\ asked # "untouched window"

\* the worker processes that are alive
AliveWorkers == {i \in Files : IsAlive(i)}

\* transcription_process is given another value while the process it
\* refers to is alive
OverwrittenAlive ==
    /\ transcription_process # None
    /\ IsAlive(transcription_process)
    /\ transcription_process' # transcription_process

\* C32: at most one worker process is alive at any time, and
\* TranscriptionManager.transcription_process is never overwritten while
\* the process it refers to is alive.
C32_OneWorkerNeverOverwritten ==
    /\ [](Cardinality(AliveWorkers) <= 1)
    /\ [][~OverwrittenAlive]_vars

====
